---- MODULE Spec2Model ----
(***************************************************************************)
(* NLPMed-Engine: the pipeline engine (BasePipeline, SinglePipeline,       *)
(* BatchPipeline) and the stages it composes.                              *)
(*                                                                         *)
(* A text is a sequence of one-character strings.  Offsets are 0-based and *)
(* half-open as in the Python source; sequence indices are 1-based.        *)
(***************************************************************************)
EXTENDS Integers, Sequences, FiniteSets, TLC

\* ------------------------------------------------------------------------
\* Characters and elementary string operations
\* ------------------------------------------------------------------------

\* the character class [a-zA-Z0-9] of the boundary look-arounds
Alnum == {"a", "b", "d", "e", "i", "m", "x", "y", "D", "I"}

NL == "\n"

\* str.strip()/str.split() whitespace, the regex class \s
Whitespace == {" ", NL}

\* re.IGNORECASE compares letters without regard to case
Lower(c) == CASE c = "D" -> "d" [] c = "I" -> "i" [] OTHER -> c


Min(S) == CHOOSE m \in S : \A k \in S : m <= k

RECURSIVE Concat(_)
Concat(ss) == IF ss = <<>> THEN <<>> ELSE Head(ss) \o Concat(Tail(ss))

\* s * n for a string s
RECURSIVE Repeat(_, _)
Repeat(s, n) == IF n <= 0 THEN <<>> ELSE s \o Repeat(s, n - 1)

\* str.lstrip / str.rstrip / str.strip
RECURSIVE LStrip(_)
LStrip(t) == IF t # <<>> /\ Head(t) \in Whitespace THEN LStrip(Tail(t)) ELSE t

RECURSIVE RStrip(_)
RStrip(t) ==
    IF t # <<>> /\ t[Len(t)] \in Whitespace THEN RStrip(SubSeq(t, 1, Len(t) - 1)) ELSE t

Strip(t) == RStrip(LStrip(t))

\* t[p..] starts with w (1-based p), letters compared case-insensitively
MatchAt(t, p, w) ==
    /\ p + Len(w) - 1 <= Len(t)
    /\ \A k \in 1..Len(w) : Lower(t[p + k - 1]) = Lower(w[k])

\* t[p..] starts with w, compared exactly (str.split, str.find)
ExactAt(t, p, w) ==
    /\ p + Len(w) - 1 <= Len(t)
    /\ \A k \in 1..Len(w) : t[p + k - 1] = w[k]

\* (?<![a-zA-Z0-9]) at position p and (?![a-zA-Z0-9]) at position q
NotPrecededByAlnum(t, p) == p = 1 \/ t[p - 1] \notin Alnum
NotFollowedByAlnum(t, q) == q > Len(t) \/ t[q] \notin Alnum

\* "|".join(re.escape(w) for w in words): an empty list joins to the empty
\* alternative
Alternatives(words) == IF words = <<>> THEN << <<>> >> ELSE words

\* mutation of WordAt: the word matches anywhere, inside a token too
SubstringAt(t, p, w) == MatchAt(t, p, w)

\* (?<![a-zA-Z0-9])(?:w)(?![a-zA-Z0-9]) matches at position p
WordAt(t, p, w) ==
    /\ MatchAt(t, p, w)
    /\ NotPrecededByAlnum(t, p)
    /\ NotFollowedByAlnum(t, p + Len(w))

\* regex.search(text) for the whole-word alternation of NoteFilter and
\* SentenceFilter
WholeWordSearch(words, t) ==
    \E p \in 1..(Len(t) + 1) :
        \E k \in 1..Len(Alternatives(words)) : WordAt(t, p, Alternatives(words)[k])

\* str.split(delimiter) for a non-empty delimiter
RECURSIVE Split(_, _)
Split(t, d) ==
    LET hits == {p \in 1..Len(t) : ExactAt(t, p, d)}
    IN  IF hits = {} THEN <<t>>
        ELSE LET p == Min(hits)
             IN  <<SubSeq(t, 1, p - 1)>> \o Split(SubSeq(t, p + Len(d), Len(t)), d)

\* delimiter.join(parts)
RECURSIVE Join(_, _)
Join(parts, d) ==
    IF parts = <<>> THEN <<>>
    ELSE IF Len(parts) = 1 THEN parts[1]
    ELSE parts[1] \o d \o Join(Tail(parts), d)

\* str.split(): the maximal runs of non-whitespace characters
RECURSIVE SplitWords(_)
SplitWords(t) ==
    LET s == LStrip(t)
    IN  IF s = <<>> THEN <<>>
        ELSE LET ends == {q \in 1..Len(s) : q = Len(s) \/ s[q + 1] \in Whitespace}
                 q == Min(ends)
             IN  <<SubSeq(s, 1, q)>> \o SplitWords(SubSeq(s, q + 1, Len(s)))

SeqToSet(s) == {s[k] : k \in 1..Len(s)}

\* ------------------------------------------------------------------------
\* Data structures (data_structures/*.py) and parameter resolution
\* ------------------------------------------------------------------------

\* An optional value: None is <<>>, a present value v is <<v>>.
None == <<>>
Some(v) == <<v>>

Sentence(text, start_index, end_index) ==
    [text |-> text, start_index |-> start_index, end_index |-> end_index,
     is_duplicate |-> FALSE, is_important |-> FALSE, is_expanded |-> FALSE]

Section(text, start_index, end_index) ==
    [text |-> text, start_index |-> start_index, end_index |-> end_index,
     sentences |-> <<>>, important_indices |-> <<>>, duplicate_indices |-> <<>>,
     expanded_indices |-> <<>>, is_important |-> FALSE]

Note(text) ==
    [text |-> text, sections |-> <<>>, preprocessed_text |-> None,
     predicted_label |-> None, predicted_score |-> None]

Patient(patient_id, notes) == [patient_id |-> patient_id, notes |-> notes]

\* the keyword argument k of a call made with **params
Provided(params, k) == IF k \in DOMAIN params THEN Some(params[k]) ELSE None

\* mutation of GetEffectiveParam: the instance value comes first
GetEffectiveParamInstanceFirst(instance_value, provided_value) ==
    IF instance_value # None THEN instance_value ELSE provided_value

\* get_effective_param on optional values: the provided value when it is
\* not None, else the instance value (which may be None)
GetEffectiveParam(instance_value, provided_value) ==
    IF provided_value # None THEN provided_value ELSE instance_value

\* get_effective_param raises ValueError("A value must be provided.")
GetEffectiveParamRaises(instance_value, provided_value, required) ==
    required /\ provided_value = None /\ instance_value = None

\* the value of an optional that is not None
Value(opt) == opt[1]

\* ------------------------------------------------------------------------
\* Stages 1-3: EncodingFixer, PatternReplacer, WordMasker
\* ------------------------------------------------------------------------

\* ftfy.fix_text is an external library: it is represented by its effect on
\* one mojibake character, "~", which it repairs to "'".
FixText(t) == [k \in 1..Len(t) |-> IF t[k] = "~" THEN "'" ELSE t[k]]

EncodingFixerProcess(note) == [note EXCEPT !.text = FixText(Strip(note.text))]

\* A pattern is the regex \s{n,}, represented by n; the combined regex is
\* the alternation of the patterns.  regex.sub replaces every maximal
\* whitespace run that some alternative matches.
RECURSIVE SubRuns(_, _, _)
SubRuns(t, patterns, target) ==
    IF t = <<>> THEN <<>>
    ELSE IF Head(t) \notin Whitespace THEN <<Head(t)>> \o SubRuns(Tail(t), patterns, target)
    ELSE LET rest == LStrip(t)
             run  == Len(t) - Len(rest)
         IN  IF \E k \in 1..Len(patterns) : run >= patterns[k]
             THEN target \o SubRuns(rest, patterns, target)
             ELSE SubSeq(t, 1, run) \o SubRuns(rest, patterns, target)

PatternReplacerProcess(self, note, params) ==
    LET effective_patterns == Value(GetEffectiveParam(self.patterns, Provided(params, "patterns")))
        effective_target   == Value(GetEffectiveParam(self.target, Provided(params, "target")))
    IN  [note EXCEPT !.text = SubRuns(note.text, effective_patterns, effective_target)]

\* regex.sub(lambda m: mask_char * len(m.group()), text): matches are taken
\* left to right without overlap, the first alternative that matches wins
RECURSIVE MaskFrom(_, _, _, _)
MaskFrom(t, p, words, mask_char) ==
    IF p > Len(t) THEN <<>>
    ELSE LET alts == Alternatives(words)
             ks   == {k \in 1..Len(alts) : WordAt(t, p, alts[k])}
         IN  IF ks = {} \/ Len(alts[Min(ks)]) = 0
             THEN <<t[p]>> \o MaskFrom(t, p + 1, words, mask_char)
             ELSE Repeat(mask_char, Len(alts[Min(ks)]))
                      \o MaskFrom(t, p + Len(alts[Min(ks)]), words, mask_char)

WordMaskerProcess(self, note, params) ==
    LET effective_words_to_mask ==
            Value(GetEffectiveParam(self.words_to_mask,
                                    Provided(params, "words_to_mask")))
        effective_mask_char == Value(GetEffectiveParam(self.mask_char, Provided(params, "mask_char")))
    IN  [note EXCEPT !.text = MaskFrom(note.text, 1, effective_words_to_mask, effective_mask_char)]

\* ------------------------------------------------------------------------
\* Stage 4: NoteFilter.  The result is TRUE when the note is returned and
\* FALSE when process returns None.
\* ------------------------------------------------------------------------

NoteFilterProcess(self, note, params) ==
    LET effective_words_to_search ==
            Value(GetEffectiveParam(self.words_to_search,
                                    Provided(params, "words_to_search")))
    IN  WholeWordSearch(effective_words_to_search, note.text)

\* ------------------------------------------------------------------------
\* Stage 5: SectionSplitter
\* ------------------------------------------------------------------------

\* mutation of BuildSections: the delimiter is not counted
RECURSIVE BuildSectionsAdjacent(_, _, _)
BuildSectionsAdjacent(pieces, start, dlen) ==
    IF pieces = <<>> THEN <<>>
    ELSE <<Section(Head(pieces), start, start + Len(Head(pieces)))>>
             \o BuildSectionsAdjacent(Tail(pieces), start + Len(Head(pieces)), dlen)

\* the sections built from the pieces, start_index running from `start`
RECURSIVE BuildSections(_, _, _)
BuildSections(pieces, start, dlen) ==
    IF pieces = <<>> THEN <<>>
    ELSE LET end_index == start + Len(Head(pieces))
         IN  <<Section(Head(pieces), start, end_index)>>
                 \o BuildSections(Tail(pieces), end_index + dlen, dlen)

SectionSplitterProcess(self, note, params) ==
    LET effective_delimiter == Value(GetEffectiveParam(self.delimiter, Provided(params, "delimiter")))
    IN  IF Strip(note.text) = <<>> THEN note
        ELSE [note EXCEPT !.sections =
                 @ \o BuildSections(Split(note.text, effective_delimiter), 0,
                                    Len(effective_delimiter))]

\* ------------------------------------------------------------------------
\* Stage 6: SectionFilter
\* ------------------------------------------------------------------------

\* inc_regex.match(text): ^(?<![a-zA-Z0-9])(?:k1|k2|...)(?![a-zA-Z0-9]);
\* the regex is None when the effective list is None or empty
IncMatch(inc_list, text) ==
    /\ inc_list # None
    /\ Value(inc_list) # <<>>
    /\ \E k \in 1..Len(Value(inc_list)) :
           /\ MatchAt(text, 1, Value(inc_list)[k])
           /\ NotFollowedByAlnum(text, 1 + Len(Value(inc_list)[k]))

\* exc_regex.match(text): ^(?<![a-zA-Z0-9])(?:k1|k2|...), no trailing boundary
ExcMatch(exc_list, text) ==
    /\ exc_list # None
    /\ Value(exc_list) # <<>>
    /\ \E k \in 1..Len(Value(exc_list)) : MatchAt(text, 1, Value(exc_list)[k])

\* mutation of FilterSections: every section visited with the block open is
\* kept
RECURSIVE FilterSectionsKeepOpen(_, _, _, _, _)
FilterSectionsKeepOpen(sections, k, in_inclusion_block, inc_list, exc_list) ==
    IF k > Len(sections) THEN <<>>
    ELSE LET text  == sections[k].text
             block == IF IncMatch(inc_list, text) THEN TRUE
                      ELSE IF ExcMatch(exc_list, text) /\ in_inclusion_block THEN FALSE
                      ELSE in_inclusion_block
         IN  (IF block THEN <<[sections[k] EXCEPT !.is_important = TRUE]>> ELSE <<>>)
                 \o FilterSectionsKeepOpen(sections, k + 1, block, inc_list, exc_list)

\* mutation of FilterSections: the exclusion regex is tried first
RECURSIVE FilterSectionsExcFirst(_, _, _, _, _)
FilterSectionsExcFirst(sections, k, in_inclusion_block, inc_list, exc_list) ==
    IF k > Len(sections) THEN <<>>
    ELSE LET text  == sections[k].text
             block == IF ExcMatch(exc_list, text) THEN FALSE
                      ELSE IF IncMatch(inc_list, text) THEN TRUE
                      ELSE in_inclusion_block
         IN  (IF block THEN <<[sections[k] EXCEPT !.is_important = TRUE]>> ELSE <<>>)
                 \o FilterSectionsExcFirst(sections, k + 1, block, inc_list, exc_list)

\* the loop over note.sections: filtered_sections from section k on, given
\* in_inclusion_block before section k
RECURSIVE FilterSections(_, _, _, _, _)
FilterSections(sections, k, in_inclusion_block, inc_list, exc_list) ==
    IF k > Len(sections) THEN <<>>
    ELSE LET text  == sections[k].text
             block == IF IncMatch(inc_list, text) THEN TRUE
                      ELSE IF ExcMatch(exc_list, text) /\ in_inclusion_block THEN FALSE
                      ELSE in_inclusion_block
             keep  == block /\ ~ExcMatch(exc_list, text)
         IN  (IF keep THEN <<[sections[k] EXCEPT !.is_important = TRUE]>> ELSE <<>>)
                 \o FilterSections(sections, k + 1, block, inc_list, exc_list)

\* SectionFilter(section_inc_list, section_exc_list, fallback=fallback)
SectionFilterInit(section_inc_list, section_exc_list, fallback) ==
    [section_inc_list |-> section_inc_list, section_exc_list |-> section_exc_list,
     fallback |-> Some(fallback)]

\* mutation of SectionFilterProcess: the fallback is never applied
SectionFilterProcessNoFallback(self, note, params) ==
    [note EXCEPT !.sections =
        FilterSections(note.sections, 1, FALSE,
                       GetEffectiveParam(self.section_inc_list, Provided(params, "section_inc_list")),
                       GetEffectiveParam(self.section_exc_list, Provided(params, "section_exc_list")))]

SectionFilterProcess(self, note, params) ==
    LET effective_section_inc_list ==
            GetEffectiveParam(self.section_inc_list, Provided(params, "section_inc_list"))
        effective_section_exc_list ==
            GetEffectiveParam(self.section_exc_list, Provided(params, "section_exc_list"))
        effective_fallback ==
            Value(GetEffectiveParam(self.fallback, Provided(params, "fallback")))
        filtered_sections ==
            FilterSections(note.sections, 1, FALSE, effective_section_inc_list,
                           effective_section_exc_list)
    IN  IF filtered_sections = <<>> /\ effective_fallback
        THEN [note EXCEPT !.sections =
                 [k \in 1..Len(note.sections) |-> [note.sections[k] EXCEPT !.is_important = TRUE]]]
        ELSE [note EXCEPT !.sections = filtered_sections]

\* ------------------------------------------------------------------------
\* Stage 7: SentenceSegmenter
\* ------------------------------------------------------------------------

\* The spaCy segmenter is an external capability returning character spans
\* (start_char, end_char) relative to its input.  It is represented by a
\* segmenter that ends a sentence after each "." and leaves the single
\* space that follows the "." outside of every span.
RECURSIVE Sents(_, _)
Sents(t, from) ==
    IF from >= Len(t) THEN <<>>
    ELSE LET stops == {q \in (from + 1)..Len(t) : t[q] = "."}
             end_char == IF stops = {} THEN Len(t) ELSE Min(stops)
             next == IF end_char < Len(t) /\ t[end_char + 1] \in Whitespace
                     THEN end_char + 1 ELSE end_char
         IN  <<[start_char |-> from, end_char |-> end_char]>> \o Sents(t, next)

\* _create_sentences_from_doc for one span of the section text
CreateSentence(section_text, sent, section_start_index) ==
    LET sent_text     == SubSeq(section_text, sent.start_char + 1, sent.end_char)
        stripped_text == Strip(sent_text)
        leading_spaces  == Len(sent_text) - Len(LStrip(sent_text))
        trailing_spaces == Len(sent_text) - Len(RStrip(sent_text))
    IN  IF sent_text # stripped_text
        THEN Sentence(stripped_text,
                      section_start_index + sent.start_char + leading_spaces,
                      section_start_index + sent.end_char - trailing_spaces)
        ELSE Sentence(stripped_text,
                      section_start_index + sent.start_char,
                      section_start_index + sent.end_char)

\* _create_sentences_from_doc(doc, section_start_index) for the spans
\* doc.sents of a document over section_text
CreateSentencesFromSents(section_text, sents, section_start_index) ==
    [k \in 1..Len(sents) |-> CreateSentence(section_text, sents[k], section_start_index)]

CreateSentencesFromDoc(section_text, section_start_index) ==
    CreateSentencesFromSents(section_text, Sents(section_text, 0), section_start_index)

SentenceSegmenterProcess(note) ==
    [note EXCEPT !.sections =
        [k \in 1..Len(note.sections) |->
            [note.sections[k] EXCEPT !.sentences =
                CreateSentencesFromDoc(note.sections[k].text, note.sections[k].start_index)]]]

\* process_batch_patients: one nlp.pipe call over every section of every
\* note of every patient, the documents scattered back in the same order
SentenceSegmenterProcessBatchPatients(ps) ==
    [i \in 1..Len(ps) |->
        [ps[i] EXCEPT !.notes = [n \in 1..Len(ps[i].notes) |-> SentenceSegmenterProcess(ps[i].notes[n])]]]

\* ------------------------------------------------------------------------
\* Stage 8: DuplicateChecker
\* ------------------------------------------------------------------------

\* MinHash and MinHashLSH come from the external datasketch library.  The
\* MinHash of a sentence is a function of the set of its whitespace-split
\* words, so a signature is represented by that set; two sentences with the
\* same word set have the same signature.  LSH.query is represented by its
\* contract: it returns the inserted keys whose Jaccard similarity with the
\* query reaches the threshold (a percentage).
GetMinhash(sentence) == SeqToSet(SplitWords(sentence.text))

Similar(a, b, threshold) ==
    IF a \cup b = {} THEN TRUE
    ELSE Cardinality(a \cap b) * 100 >= threshold * Cardinality(a \cup b)

\* MinHashLSH(threshold, num_perm).  `entries` holds one record per insert:
\* key is the signature; text records which sentence was inserted and stale
\* becomes TRUE when a later pipeline invocation begins.  `queried` records
\* the texts that were queried.  text, stale and queried are history, the
\* code does not read them.
MinHashLSH(threshold, num_perm) ==
    [threshold |-> threshold, num_perm |-> num_perm, entries |-> {}, queried |-> {}]

LshQuery(l, minhash) == {e \in l.entries : Similar(e.key, minhash, l.threshold)}

IsDuplicate(l, sentence) == LshQuery(l, GetMinhash(sentence)) # {}

\* mutation of AddSentence: nothing is inserted
AddNothing(l, sentence) == l

AddSentence(l, sentence) ==
    [l EXCEPT !.entries = @ \cup {[key |-> GetMinhash(sentence), text |-> sentence.text,
                                   stale |-> FALSE]}]

\* the inner loop of process over section.sentences from index idx (0-based)
\* on; the result carries the sentences, duplicate_indices and the LSH
\* mutation of CheckSentences: a sentence found to be a duplicate is inserted
\* as well
RECURSIVE CheckSentencesInsertingDuplicates(_, _, _, _)
CheckSentencesInsertingDuplicates(sentences, idx, effective_length_threshold, l) ==
    IF idx >= Len(sentences)
    THEN [sentences |-> sentences, duplicate_indices |-> <<>>, lsh |-> l]
    ELSE LET sentence == sentences[idx + 1]
         IN  IF Len(sentence.text) < effective_length_threshold
             THEN CheckSentencesInsertingDuplicates(sentences, idx + 1,
                                                    effective_length_threshold, l)
             ELSE LET asked == [l EXCEPT !.queried = @ \cup {sentence.text}]
                  IN  IF IsDuplicate(l, sentence)
                      THEN LET r == CheckSentencesInsertingDuplicates(
                                        [sentences EXCEPT ![idx + 1].is_duplicate = TRUE],
                                        idx + 1, effective_length_threshold,
                                        AddSentence(asked, sentence))
                           IN  [r EXCEPT !.duplicate_indices = <<idx>> \o @]
                      ELSE CheckSentencesInsertingDuplicates(
                               sentences, idx + 1, effective_length_threshold,
                               AddSentence(asked, sentence))

RECURSIVE CheckSentences(_, _, _, _)
CheckSentences(sentences, idx, effective_length_threshold, l) ==
    IF idx >= Len(sentences)
    THEN [sentences |-> sentences, duplicate_indices |-> <<>>, lsh |-> l]
    ELSE LET sentence == sentences[idx + 1]
         IN  IF Len(sentence.text) < effective_length_threshold
             THEN CheckSentences(sentences, idx + 1, effective_length_threshold, l)
             ELSE LET asked == [l EXCEPT !.queried = @ \cup {sentence.text}]
                  IN  IF IsDuplicate(l, sentence)
                      THEN LET r == CheckSentences(
                                        [sentences EXCEPT ![idx + 1].is_duplicate = TRUE],
                                        idx + 1, effective_length_threshold, asked)
                           IN  [r EXCEPT !.duplicate_indices = <<idx>> \o @]
                      ELSE CheckSentences(sentences, idx + 1, effective_length_threshold,
                                          AddSentence(asked, sentence))

\* the outer loop of process over note.sections from section k on
RECURSIVE CheckSections(_, _, _, _)
CheckSections(sections, k, effective_length_threshold, l) ==
    IF k > Len(sections) THEN [sections |-> sections, lsh |-> l]
    ELSE LET r == CheckSentences(sections[k].sentences, 0, effective_length_threshold, l)
         IN  CheckSections(
                 [sections EXCEPT ![k].sentences = r.sentences,
                                  ![k].duplicate_indices = r.duplicate_indices],
                 k + 1, effective_length_threshold, r.lsh)

\* mutation of DuplicateCheckerProcess: the length_threshold of the call is
\* not read
DuplicateCheckerProcessInstanceThreshold(self, note, params) ==
    [note |-> [note EXCEPT !.sections =
                  CheckSections(note.sections, 1, Value(self.length_threshold), self.lsh).sections],
     lsh |-> CheckSections(note.sections, 1, Value(self.length_threshold), self.lsh).lsh]

\* DuplicateChecker.process; the result carries the note and self.lsh
DuplicateCheckerProcess(self, note, params) ==
    LET effective_length_threshold ==
            Value(GetEffectiveParam(self.length_threshold,
                                    Provided(params, "length_threshold")))
        r == CheckSections(note.sections, 1, effective_length_threshold, self.lsh)
    IN  [note |-> [note EXCEPT !.sections = r.sections], lsh |-> r.lsh]

\* mutation of ClearLsh: the index is kept
KeepLsh(self, params) == self.lsh

\* DuplicateChecker.clear_lsh(**params): the new value of self.lsh
ClearLsh(self, params) ==
    LET effective_num_perm ==
            Value(GetEffectiveParam(self.num_perm, Provided(params, "num_perm")))
        effective_sim_threshold ==
            Value(GetEffectiveParam(self.sim_threshold, Provided(params, "sim_threshold")))
    IN  MinHashLSH(effective_sim_threshold, effective_num_perm)

\* MinHash(num_perm=self.num_perm) of get_minhash: the length of every
\* signature the DuplicateChecker computes
MinHashNumPerm(self) == Value(self.num_perm)

\* lsh.query(minhash) and lsh.insert(key, minhash) of datasketch raise
\* ValueError when the length of the signature is not that of the index
LshRaises(l, num_perm) == l.num_perm # num_perm

\* the texts of the sentences that process does not skip, in their order
CheckedTexts(note, effective_length_threshold) ==
    Concat([k \in 1..Len(note.sections) |->
               SelectSeq([j \in 1..Len(note.sections[k].sentences) |->
                             note.sections[k].sentences[j].text],
                         LAMBDA text : Len(text) >= effective_length_threshold)])

\* process raises in is_duplicate at the first sentence it does not skip
DuplicateCheckerRaises(self, note, params) ==
    /\ LshRaises(self.lsh, MinHashNumPerm(self))
    /\ CheckedTexts(note, Value(GetEffectiveParam(self.length_threshold,
                                                  Provided(params, "length_threshold")))) # <<>>

\* history: the LSH with the query that raised recorded
QueryAttempted(self, note, params) ==
    [self.lsh EXCEPT !.queried =
        @ \cup {Head(CheckedTexts(note, Value(GetEffectiveParam(
                                                 self.length_threshold,
                                                 Provided(params, "length_threshold")))))}]

\* ------------------------------------------------------------------------
\* Stage 9: SentenceFilter
\* ------------------------------------------------------------------------

\* mutation of SentenceFilterSection: the sentences marked duplicate are not
\* passed over
SentenceFilterSectionWithDuplicates(section, words) ==
    LET hit(k) == WholeWordSearch(words, section.sentences[k].text)
        IndicesFrom[k \in 1..(Len(section.sentences) + 1)] ==
            IF k > Len(section.sentences) THEN <<>>
            ELSE (IF hit(k) THEN <<k - 1>> ELSE <<>>) \o IndicesFrom[k + 1]
    IN  [section EXCEPT
            !.sentences = [k \in 1..Len(section.sentences) |->
                              IF hit(k) THEN [section.sentences[k] EXCEPT !.is_important = TRUE]
                              ELSE section.sentences[k]],
            !.important_indices = IndicesFrom[1]]

SentenceFilterSection(section, words) ==
    LET hit(k) == /\ ~section.sentences[k].is_duplicate
                  /\ WholeWordSearch(words, section.sentences[k].text)
        IndicesFrom[k \in 1..(Len(section.sentences) + 1)] ==
            IF k > Len(section.sentences) THEN <<>>
            ELSE (IF hit(k) THEN <<k - 1>> ELSE <<>>) \o IndicesFrom[k + 1]
    IN  [section EXCEPT
            !.sentences = [k \in 1..Len(section.sentences) |->
                              IF hit(k) THEN [section.sentences[k] EXCEPT !.is_important = TRUE]
                              ELSE section.sentences[k]],
            !.important_indices = IndicesFrom[1]]

SentenceFilterProcess(self, note, params) ==
    LET effective_words_to_search ==
            Value(GetEffectiveParam(self.words_to_search,
                                    Provided(params, "words_to_search")))
    IN  [note EXCEPT !.sections =
            [k \in 1..Len(note.sections) |->
                SentenceFilterSection(note.sections[k], effective_words_to_search)]]

\* ------------------------------------------------------------------------
\* Stage 10: SentenceExpander
\* ------------------------------------------------------------------------

\* the while loop of expand_section_sentences; indices are 0-based and the
\* result is the window [range_start, range_end)
RECURSIVE GrowWindow(_, _, _, _, _)
GrowWindow(sentences, range_start, range_end, combined_len, length_threshold) ==
    IF combined_len >= length_threshold
    THEN [range_start |-> range_start, range_end |-> range_end]
    ELSE LET start1 == IF range_start > 0 THEN range_start - 1 ELSE range_start
             len1   == IF range_start > 0
                       THEN combined_len + Len(sentences[start1 + 1].text)
                       ELSE combined_len
             more   == len1 < length_threshold /\ range_end < Len(sentences)
             len2   == IF more THEN len1 + Len(sentences[range_end + 1].text) ELSE len1
             end1   == IF more THEN range_end + 1 ELSE range_end
         IN  IF start1 = 0 /\ end1 = Len(sentences)
             THEN [range_start |-> start1, range_end |-> end1]
             ELSE GrowWindow(sentences, start1, end1, len2, length_threshold)

\* sorted(expanded_indices)
RECURSIVE SortedSeq(_)
SortedSeq(S) == IF S = {} THEN <<>> ELSE <<Min(S)>> \o SortedSeq(S \ {Min(S)})

ExpandSectionSentences(sentences, important_indices, length_threshold) ==
    LET window(idx) ==
            IF Len(sentences[idx + 1].text) >= length_threshold THEN {idx}
            ELSE LET w == GrowWindow(sentences, idx, idx + 1, Len(sentences[idx + 1].text),
                                     length_threshold)
                 IN  w.range_start..(w.range_end - 1)
    IN  SortedSeq(UNION {window(important_indices[k]) : k \in 1..Len(important_indices)})

SentenceExpanderProcess(self, note, params) ==
    LET effective_length_threshold ==
            Value(GetEffectiveParam(self.length_threshold,
                                    Provided(params, "length_threshold")))
    IN  [note EXCEPT !.sections =
            [k \in 1..Len(note.sections) |->
                [note.sections[k] EXCEPT !.expanded_indices =
                    ExpandSectionSentences(note.sections[k].sentences,
                                           note.sections[k].important_indices,
                                           effective_length_threshold)]]]

\* ------------------------------------------------------------------------
\* Stage 11: Joiner
\* ------------------------------------------------------------------------

\* mutation of JoinerProcess: the sentences of expanded_indices are joined
JoinerProcessExpanded(self, note, params) ==
    LET joined(section) ==
            Join([k \in 1..Len(section.expanded_indices) |->
                     section.sentences[section.expanded_indices[k] + 1].text],
                 Value(GetEffectiveParam(self.sentence_delimiter,
                                         Provided(params, "sentence_delimiter"))))
        PreprocessedFrom[k \in 1..(Len(note.sections) + 1)] ==
            IF k > Len(note.sections) THEN <<>>
            ELSE (IF note.sections[k].is_important /\ note.sections[k].expanded_indices # <<>>
                  THEN <<joined(note.sections[k])>> ELSE <<>>) \o PreprocessedFrom[k + 1]
    IN  [note EXCEPT !.preprocessed_text =
            Some(Join(PreprocessedFrom[1],
                      Value(GetEffectiveParam(self.section_delimiter,
                                              Provided(params, "section_delimiter")))))]

\* mutation of JoinerProcess: the joined text is stored as the text of the
\* note as well
JoinerProcessRewritesText(self, note, params) ==
    LET effective_sentence_delimiter ==
            Value(GetEffectiveParam(self.sentence_delimiter,
                                    Provided(params, "sentence_delimiter")))
        effective_section_delimiter ==
            Value(GetEffectiveParam(self.section_delimiter,
                                    Provided(params, "section_delimiter")))
        joined(section) ==
            Join([k \in 1..Len(section.important_indices) |->
                     section.sentences[section.important_indices[k] + 1].text],
                 effective_sentence_delimiter)
        PreprocessedFrom[k \in 1..(Len(note.sections) + 1)] ==
            IF k > Len(note.sections) THEN <<>>
            ELSE (IF note.sections[k].is_important /\ note.sections[k].important_indices # <<>>
                  THEN <<joined(note.sections[k])>> ELSE <<>>) \o PreprocessedFrom[k + 1]
    IN  [note EXCEPT !.preprocessed_text =
            Some(Join(PreprocessedFrom[1], effective_section_delimiter)),
                     !.text = Join(PreprocessedFrom[1], effective_section_delimiter)]

\* mutation of JoinerProcess: a section contributes whether or not it is
\* marked important
JoinerProcessEverySection(self, note, params) ==
    LET effective_sentence_delimiter ==
            Value(GetEffectiveParam(self.sentence_delimiter,
                                    Provided(params, "sentence_delimiter")))
        effective_section_delimiter ==
            Value(GetEffectiveParam(self.section_delimiter,
                                    Provided(params, "section_delimiter")))
        joined(section) ==
            Join([k \in 1..Len(section.important_indices) |->
                     section.sentences[section.important_indices[k] + 1].text],
                 effective_sentence_delimiter)
        PreprocessedFrom[k \in 1..(Len(note.sections) + 1)] ==
            IF k > Len(note.sections) THEN <<>>
            ELSE (IF note.sections[k].important_indices # <<>>
                  THEN <<joined(note.sections[k])>> ELSE <<>>) \o PreprocessedFrom[k + 1]
    IN  [note EXCEPT !.preprocessed_text =
            Some(Join(PreprocessedFrom[1], effective_section_delimiter))]

JoinerProcess(self, note, params) ==
    LET effective_sentence_delimiter ==
            Value(GetEffectiveParam(self.sentence_delimiter,
                                    Provided(params, "sentence_delimiter")))
        effective_section_delimiter ==
            Value(GetEffectiveParam(self.section_delimiter,
                                    Provided(params, "section_delimiter")))
        joined(section) ==
            Join([k \in 1..Len(section.important_indices) |->
                     section.sentences[section.important_indices[k] + 1].text],
                 effective_sentence_delimiter)
        PreprocessedFrom[k \in 1..(Len(note.sections) + 1)] ==
            IF k > Len(note.sections) THEN <<>>
            ELSE (IF note.sections[k].is_important /\ note.sections[k].important_indices # <<>>
                  THEN <<joined(note.sections[k])>> ELSE <<>>) \o PreprocessedFrom[k + 1]
    IN  [note EXCEPT !.preprocessed_text =
            Some(Join(PreprocessedFrom[1], effective_section_delimiter))]

\* ------------------------------------------------------------------------
\* Stage 12: MLInference
\* ------------------------------------------------------------------------

\* The transformers pipeline is an external capability; pipe(text, top_k=1)
\* is represented by a classifier whose best class tells whether the text
\* has a "d" in it and whose score, already rounded, is the length of the
\* text.
Classify(text) ==
    [label |-> IF \E k \in 1..Len(text) : text[k] = "d" THEN "LABEL_1" ELSE "LABEL_0",
     score |-> Len(text)]

\* note.preprocessed_text if effective_use_preped_text else note.text
TextToInfer(note, effective_use_preped_text) ==
    IF effective_use_preped_text THEN note.preprocessed_text ELSE Some(note.text)

\* `if text`: the text is neither None nor empty
Truthy(text) == text # None /\ Value(text) # <<>>

\* the note with the first result of the classifier assigned
Predicted(note, result) ==
    [note EXCEPT !.predicted_label = Some(result.label),
                 !.predicted_score = Some(result.score)]

MLInferenceProcess(self, note, params) ==
    LET effective_use_preped_text ==
            Value(GetEffectiveParam(self.use_preped_text,
                                    Provided(params, "use_preped_text")))
        text_to_infer == TextToInfer(note, effective_use_preped_text)
    IN  IF Truthy(text_to_infer) THEN Predicted(note, Classify(Value(text_to_infer)))
        ELSE note

\* the pairs (patient, note) of ps, patient by patient
AllNotes(ps) ==
    Concat([i \in 1..Len(ps) |->
               [n \in 1..Len(ps[i].notes) |-> [patient |-> i, note |-> n]]])

\* mutation of NoteTextPairs: the notes without a text are not left out
NoteTextPairsUnfiltered(ps, effective_use_preped_text) ==
    SelectSeq(AllNotes(ps),
              LAMBDA q : TextToInfer(ps[q.patient].notes[q.note],
                                     effective_use_preped_text) # None)

\* note_text_pairs of process_batch_patients once the pairs without a text
\* are left out; a pair is held by the position of its note
NoteTextPairs(ps, effective_use_preped_text) ==
    SelectSeq(AllNotes(ps),
              LAMBDA q : Truthy(TextToInfer(ps[q.patient].notes[q.note],
                                            effective_use_preped_text)))

\* results = pipe(texts, top_k=1): one result for each text, in their order
BatchResults(ps, pairs, effective_use_preped_text) ==
    [k \in 1..Len(pairs) |->
        Classify(Value(TextToInfer(ps[pairs[k].patient].notes[pairs[k].note],
                                   effective_use_preped_text)))]

\* the loop over zip(note_text_pairs, results)
Scatter(ps, pairs, results) ==
    [i \in 1..Len(ps) |->
        [ps[i] EXCEPT !.notes =
            [n \in 1..Len(ps[i].notes) |->
                IF \E k \in 1..Len(pairs) : pairs[k] = [patient |-> i, note |-> n]
                THEN Predicted(ps[i].notes[n],
                               results[CHOOSE k \in 1..Len(pairs) :
                                           pairs[k] = [patient |-> i, note |-> n]])
                ELSE ps[i].notes[n]]]]

\* the gathering, the call of the classifier and the scattering, given the
\* effective use_preped_text
ClassifyBatch(ps, pairs, effective_use_preped_text) ==
    Scatter(ps, pairs, BatchResults(ps, pairs, effective_use_preped_text))

\* MLInference.process_batch_patients(patients, **params)
MLInferenceProcessBatchPatients(self, ps, params) ==
    ClassifyBatch(ps,
                  NoteTextPairs(ps, Value(GetEffectiveParam(self.use_preped_text,
                                                            Provided(params, "use_preped_text")))),
                  Value(GetEffectiveParam(self.use_preped_text,
                                          Provided(params, "use_preped_text"))))

\* ------------------------------------------------------------------------
\* BasePipeline: construction and preprocess_params
\* ------------------------------------------------------------------------

\* the keys of self.components, in the order of the OrderedDict
ComponentNames ==
    <<"encoding_fixer", "pattern_replacer", "word_masker", "note_filter",
      "section_splitter", "section_filter", "sentence_segmenter", "duplicate_checker",
      "sentence_filter", "sentence_expander", "joiner", "ml_inference">>

NameSet == SeqToSet(ComponentNames)

\* self.components as first assigned in __init__
EmptyComponents == [name \in NameSet |-> [component |-> None, status |-> None]]

\* mutation of OrderedComponents: the components in the key order of the
\* configuration
OrderedAsConfigured(config) == config.order

\* the order in which self.components.items() yields the components of a
\* pipeline built from `config`
OrderedComponents(config) == ComponentNames

\* settings[key]; the keys listed under "null" have the value None
Setting(settings, key) ==
    IF "null" \in DOMAIN settings /\ key \in settings["null"] THEN None
    ELSE Some(settings[key])

\* settings.get(k, default)
Get(settings, k, default) == IF k \in DOMAIN settings THEN settings[k] ELSE default

DefaultNumPerm == 256
DefaultSimThreshold == 90
DefaultBatchSize == 10

\* the settings[...] subscriptions of the _init_* methods (KeyError when the
\* key is absent)
SubscriptedKeys(name) ==
    CASE name = "pattern_replacer"  -> {"patterns"}
      [] name = "word_masker"       -> {"words_to_mask"}
      [] name = "note_filter"       -> {"words_to_search"}
      [] name = "section_filter"    -> {"section_inc_list", "section_exc_list", "fallback"}
      [] name = "duplicate_checker" -> {"length_threshold"}
      [] name = "sentence_filter"   -> {"words_to_search"}
      [] name = "sentence_expander" -> {"length_threshold"}
      [] name = "ml_inference"      -> {"device", "ml_model_path", "ml_tokenizer_path"}
      [] OTHER                      -> {}

\* the keyword arguments _init_ml_inference passes to MLInference(...)
InitMLInferenceKeywords == {"device", "ml_model_path", "ml_tokenizer_path"}

\* the keyword-only parameters of MLInference.__init__; `models` has no
\* default
MLInferenceInitKeywords == {"models", "use_preped_text"}

\* MLInference(**kw) raises TypeError: an unexpected keyword, or `models`
\* missing
MLInferenceInitRaises(keywords) ==
    \/ keywords \ MLInferenceInitKeywords # {}
    \/ "models" \notin keywords

\* initializer(component_name, settings) raises: a subscripted key is
\* missing (KeyError), or the component's constructor rejects the call
InitializerRaises(name, settings) ==
    \/ SubscriptedKeys(name) \ DOMAIN settings # {}
    \/ name = "ml_inference" /\ MLInferenceInitRaises(InitMLInferenceKeywords)

\* the object initializer(component_name, settings) returns: its attributes
Initializer(name, settings) ==
    CASE name = "encoding_fixer" -> [class |-> "EncodingFixer"]
      [] name = "pattern_replacer" ->
            [patterns |-> Setting(settings, "patterns"),
             target |-> Some(Get(settings, "target", <<NL, NL>>))]
      [] name = "word_masker" ->
            [words_to_mask |-> Setting(settings, "words_to_mask"),
             mask_char |-> Some(Get(settings, "mask_char", <<"*">>))]
      [] name = "note_filter" -> [words_to_search |-> Setting(settings, "words_to_search")]
      [] name = "section_splitter" ->
            [delimiter |-> Some(Get(settings, "delimiter", <<NL, NL>>))]
      [] name = "section_filter" ->
            [section_inc_list |-> Setting(settings, "section_inc_list"),
             section_exc_list |-> Setting(settings, "section_exc_list"),
             fallback |-> Setting(settings, "fallback")]
      [] name = "sentence_segmenter" ->
            [model_name |-> Get(settings, "model_name", "en_core_sci_lg"),
             batch_size |-> Get(settings, "batch_size", DefaultBatchSize)]
      [] name = "duplicate_checker" ->
            [num_perm |-> Some(Get(settings, "num_perm", DefaultNumPerm)),
             sim_threshold |-> Some(Get(settings, "sim_threshold", DefaultSimThreshold)),
             length_threshold |-> Setting(settings, "length_threshold"),
             lsh |-> MinHashLSH(Get(settings, "sim_threshold", DefaultSimThreshold),
                                Get(settings, "num_perm", DefaultNumPerm))]
      [] name = "sentence_filter" -> [words_to_search |-> Setting(settings, "words_to_search")]
      [] name = "sentence_expander" ->
            [length_threshold |-> Setting(settings, "length_threshold")]
      [] name = "joiner" ->
            [sentence_delimiter |-> Some(Get(settings, "sentence_delimiter", <<NL>>)),
             section_delimiter |-> Some(Get(settings, "section_delimiter", <<NL, NL>>))]
      [] name = "ml_inference" -> [class |-> "MLInference"]

\* A configuration is [order, settings]: the keys of the dict in insertion
\* order and the settings of each key.

\* BasePipeline.__init__ raises
InitRaises(config) ==
    \E name \in NameSet :
        /\ name \in DOMAIN config.settings
        /\ config.settings[name].status # "excluded"
        /\ InitializerRaises(name, config.settings[name])

\* self.components after BasePipeline.__init__ returns
InitComponents(config) ==
    [name \in NameSet |->
        IF name \in DOMAIN config.settings
        THEN [component |-> IF config.settings[name].status # "excluded"
                            THEN Some(Initializer(name, config.settings[name]))
                            ELSE None,
              status |-> Some(config.settings[name].status)]
        ELSE [component |-> None, status |-> None]]

\* mutation of PreprocessParams: the status of the override map is not read
PreprocessParamsInitialStatus(comps, override) ==
    [name \in {n \in NameSet : comps[n].component # None} |->
        [should_process |-> Value(comps[name].status) = "enabled",
         params |-> IF name \in DOMAIN override
                    THEN [k \in DOMAIN override[name] \ {"status"} |-> override[name][k]]
                    ELSE <<>>]]

\* preprocess_params(config): `override` is the call's config argument, the
\* empty map standing for None
PreprocessParams(comps, override) ==
    [name \in {n \in NameSet : comps[n].component # None} |->
        LET initial_status == Value(comps[name].status)
            status == IF name \in DOMAIN override
                      THEN Get(override[name], "status", initial_status)
                      ELSE initial_status
            params == IF name \in DOMAIN override
                      THEN [k \in DOMAIN override[name] \ {"status"} |-> override[name][k]]
                      ELSE <<>>
        IN  [should_process |-> status = "enabled", params |-> params]]

\* component.process(note, **params): the result carries the note, whether
\* process returned None, and the component with its state after the call
ComponentProcess(name, self, note, params) ==
    CASE name = "encoding_fixer" ->
            [note |-> EncodingFixerProcess(note), none |-> FALSE, self |-> self]
      [] name = "pattern_replacer" ->
            [note |-> PatternReplacerProcess(self, note, params), none |-> FALSE, self |-> self]
      [] name = "word_masker" ->
            [note |-> WordMaskerProcess(self, note, params), none |-> FALSE, self |-> self]
      [] name = "note_filter" ->
            [note |-> note, none |-> ~NoteFilterProcess(self, note, params), self |-> self]
      [] name = "section_splitter" ->
            [note |-> SectionSplitterProcess(self, note, params), none |-> FALSE, self |-> self]
      [] name = "section_filter" ->
            [note |-> SectionFilterProcess(self, note, params), none |-> FALSE, self |-> self]
      [] name = "sentence_segmenter" ->
            [note |-> SentenceSegmenterProcess(note), none |-> FALSE, self |-> self]
      [] name = "duplicate_checker" ->
            LET r == DuplicateCheckerProcess(self, note, params)
            IN  [note |-> r.note, none |-> FALSE, self |-> [self EXCEPT !.lsh = r.lsh]]
      [] name = "sentence_filter" ->
            [note |-> SentenceFilterProcess(self, note, params), none |-> FALSE, self |-> self]
      [] name = "sentence_expander" ->
            [note |-> SentenceExpanderProcess(self, note, params), none |-> FALSE, self |-> self]
      [] name = "joiner" ->
            [note |-> JoinerProcess(self, note, params), none |-> FALSE, self |-> self]
      [] name = "ml_inference" ->
            [note |-> MLInferenceProcess(self, note, params), none |-> FALSE, self |-> self]

\* the parameters that process resolves with required=True
RequiredParams(name) ==
    CASE name = "pattern_replacer" -> {"patterns", "target"}
      [] name = "word_masker" -> {"words_to_mask", "mask_char"}
      [] name = "note_filter" -> {"words_to_search"}
      [] name = "section_splitter" -> {"delimiter"}
      [] name = "section_filter" -> {"fallback"}
      [] name = "duplicate_checker" -> {"length_threshold"}
      [] name = "sentence_filter" -> {"words_to_search"}
      [] name = "sentence_expander" -> {"length_threshold"}
      [] name = "joiner" -> {"sentence_delimiter", "section_delimiter"}
      [] name = "ml_inference" -> {"use_preped_text"}
      [] OTHER -> {}

\* process raises the ValueError of get_effective_param; every resolution
\* precedes the first change to the note
ProcessRaises(name, self, params) ==
    \E key \in RequiredParams(name) :
        GetEffectiveParamRaises(self[key], Provided(params, key), TRUE)

\* component.process(note, **params) raises: the ValueError of
\* get_effective_param or, in the DuplicateChecker, that of the LSH
ComponentRaises(name, self, note, params) ==
    \/ ProcessRaises(name, self, params)
    \/ name = "duplicate_checker" /\ DuplicateCheckerRaises(self, note, params)

\* ------------------------------------------------------------------------
\* The worker function of BatchPipeline
\* ------------------------------------------------------------------------

\* pickle.dumps / pickle.loads of a Patient: the bytes determine an equal
\* copy of the object graph
PickleDumps(patient) == [bytes |-> patient]
PickleLoads(serialized_patient) == serialized_patient.bytes

ChunkSize == 10

\* the inner loop of _partial_process_phase over `todo`, the names of the
\* components still to run on the note; comps holds the worker's component
\* objects.  ran lists the components that ran, none tells whether one
\* returned None, raised whether one raised.
RECURSIVE RunComponents(_, _, _, _)

\* the rest of the loop once the first component of todo has returned r
AfterProcess(r, todo, comps, pparams) ==
    IF r.none
    THEN [note |-> [r.note EXCEPT !.preprocessed_text = Some(<<>>)],
          comps |-> [comps EXCEPT ![Head(todo)].component = Some(r.self)],
          ran |-> <<Head(todo)>>, none |-> TRUE, raised |-> FALSE]
    ELSE [RunComponents(r.note, Tail(todo),
                        [comps EXCEPT ![Head(todo)].component = Some(r.self)], pparams)
             EXCEPT !.ran = <<Head(todo)>> \o @]

RunComponents(note, todo, comps, pparams) ==
    IF todo = <<>>
    THEN [note |-> note, comps |-> comps, ran |-> <<>>, none |-> FALSE, raised |-> FALSE]
    ELSE IF ComponentRaises(Head(todo), Value(comps[Head(todo)].component), note,
                            pparams[Head(todo)].params)
    THEN [note |-> note, comps |-> comps, ran |-> <<>>, none |-> FALSE, raised |-> TRUE]
    ELSE AfterProcess(ComponentProcess(Head(todo), Value(comps[Head(todo)].component), note,
                                       pparams[Head(todo)].params),
                      todo, comps, pparams)

\* the outer loop over patient.notes from note n on
RECURSIVE RunNotes(_, _, _, _, _)

\* the rest of the loop once the components have run on note n with result r
AfterNote(r, notes, n, todo, pparams) ==
    IF r.raised
    THEN [notes |-> [notes EXCEPT ![n] = r.note], comps |-> r.comps,
          ran |-> [k \in 1..Len(r.ran) |-> [note |-> n, component |-> r.ran[k]]],
          nones |-> {}, raised |-> TRUE]
    ELSE [RunNotes([notes EXCEPT ![n] = r.note], n + 1, todo, r.comps, pparams) EXCEPT
             !.ran = [k \in 1..Len(r.ran) |-> [note |-> n, component |-> r.ran[k]]] \o @,
             !.nones = IF r.none THEN @ \cup {n} ELSE @]

RunNotes(notes, n, todo, comps, pparams) ==
    IF n > Len(notes)
    THEN [notes |-> notes, comps |-> comps, ran |-> <<>>, nones |-> {}, raised |-> FALSE]
    ELSE AfterNote(RunComponents(notes[n], todo, comps, pparams), notes, n, todo, pparams)

\* pickle.dumps(patient) once the loops have ended with result r
DumpResult(patient, r) ==
    [bytes |-> PickleDumps([patient EXCEPT !.notes = r.notes]),
     comps |-> r.comps, ran |-> r.ran, nones |-> r.nones, raised |-> r.raised]

\* _partial_process_phase(serialized_patient, components)
PartialProcessPhase(serialized_patient, todo, comps, pparams) ==
    DumpResult(PickleLoads(serialized_patient),
               RunNotes(PickleLoads(serialized_patient).notes, 1, todo, comps, pparams))

\* components_to_process of _process_phase_multiprocessing, by name
ComponentsToProcess(component_names, pparams) ==
    SelectSeq(component_names,
              LAMBDA name : name \in DOMAIN pparams /\ pparams[name].should_process)

Phase1Components ==
    <<"encoding_fixer", "pattern_replacer", "word_masker", "note_filter",
      "section_splitter", "section_filter">>

Phase3Components ==
    <<"duplicate_checker", "sentence_filter", "sentence_expander", "joiner">>

\* pool.map(process_func, serialized_patients, chunksize=10): the tasks are
\* the chunks of consecutive patients; every task unpickles its own copy of
\* the components.
NumChunks(n) == (n + ChunkSize - 1) \div ChunkSize

ChunkItems(c, n) ==
    [k \in 1..(IF c * ChunkSize <= n THEN ChunkSize ELSE n - (c - 1) * ChunkSize) |->
        (c - 1) * ChunkSize + k]

\* the pool at the start of a phase
StartPool(ps, component_names, comps, pparams) ==
    LET todo == ComponentsToProcess(component_names, pparams)
    IN  [todo |-> todo,
         serialized |-> IF todo = <<>> THEN <<>> ELSE [i \in 1..Len(ps) |-> PickleDumps(ps[i])],
         done |-> IF todo = <<>> THEN <<>> ELSE [c \in 1..NumChunks(Len(ps)) |-> 0],
         comps |-> IF todo = <<>> THEN <<>>
                   ELSE [c \in 1..NumChunks(Len(ps)) |->
                            [name \in SeqToSet(todo) |-> comps[name]]],
         raised |-> IF todo = <<>> THEN <<>> ELSE [c \in 1..NumChunks(Len(ps)) |-> FALSE]]

NoPool == [todo |-> <<>>, serialized |-> <<>>, done |-> <<>>, comps |-> <<>>, raised |-> <<>>]

\* ------------------------------------------------------------------------
\* Inputs: configurations, override maps, notes and patients
\* ------------------------------------------------------------------------

MaxNotes == 2
MaxPatients == 2

Statuses == {"enabled", "disabled", "excluded"}

\* settings of a component, with the keys the _init_* methods read
SettingsFor(name, status) ==
    CASE name = "pattern_replacer" ->
            [status |-> status, patterns |-> <<2>>, target |-> <<"|">>]
      [] name = "word_masker" ->
            [status |-> status, words_to_mask |-> << <<"m">> >>, mask_char |-> <<"*">>]
      [] name = "note_filter" -> [status |-> status, words_to_search |-> << <<"d">> >>]
      [] name = "section_splitter" -> [status |-> status, delimiter |-> <<"|">>]
      [] name = "section_filter" ->
            [status |-> status, section_inc_list |-> << <<"i">> >>,
             section_exc_list |-> << <<"e">> >>, fallback |-> TRUE]
      [] name = "sentence_segmenter" ->
            [status |-> status, model_name |-> "en_core_sci_lg", batch_size |-> 10]
      [] name = "duplicate_checker" ->
            [status |-> status, num_perm |-> 256, sim_threshold |-> 90,
             length_threshold |-> 3]
      [] name = "sentence_filter" -> [status |-> status, words_to_search |-> << <<"d">> >>]
      [] name = "sentence_expander" -> [status |-> status, length_threshold |-> 4]
      [] name = "joiner" ->
            [status |-> status, sentence_delimiter |-> <<" ">>, section_delimiter |-> <<"|">>]
      [] name = "ml_inference" ->
            [status |-> status, device |-> "cpu", ml_model_path |-> "prajjwal1/bert-mini",
             ml_tokenizer_path |-> "prajjwal1/bert-mini"]
      [] OTHER -> [status |-> status]

Reverse(seq) == [k \in 1..Len(seq) |-> seq[Len(seq) + 1 - k]]

\* the configuration with the keys in `order`, every component enabled but
\* those of `other`
ConfigWith(order, other) ==
    [order |-> order,
     settings |-> [name \in SeqToSet(order) |->
                      SettingsFor(name, IF name \in DOMAIN other THEN other[name]
                                        ELSE "enabled")]]

\* the configuration with the value of a setting replaced by None
WithNull(cfg, name, key) ==
    [cfg EXCEPT !.settings[name] =
        [k \in DOMAIN cfg.settings[name] \cup {"null"} |->
            IF k = "null" THEN {key} ELSE cfg.settings[name][k]]]

WithoutML == SelectSeq(ComponentNames, LAMBDA name : name # "ml_inference")

RunConfigs ==
    { ConfigWith(ComponentNames, [ml_inference |-> "excluded"]),
      ConfigWith(ComponentNames, [ml_inference |-> "excluded", sentence_filter |-> "disabled",
                                  duplicate_checker |-> "disabled"]),
      ConfigWith(Reverse(WithoutML), [duplicate_checker |-> "excluded"]),
      ConfigWith(ComponentNames, <<>>),
      ConfigWith(ComponentNames, [ml_inference |-> "excluded", word_masker |-> "on"]),
      WithNull(ConfigWith(ComponentNames, [ml_inference |-> "excluded"]),
               "note_filter", "words_to_search"),
      WithNull(ConfigWith(ComponentNames, [ml_inference |-> "excluded"]),
               "sentence_expander", "length_threshold") }

Overrides ==
    { <<>>,
      [sentence_filter |-> [status |-> "disabled"]],
      [sentence_filter |-> [status |-> "enabled"]],
      [duplicate_checker |-> [status |-> "enabled", length_threshold |-> 7]],
      [duplicate_checker |-> [status |-> "disabled"]],
      [note_filter |-> [words_to_search |-> << <<"y">> >>]],
      [sentence_filter |-> [status |-> "off"]],
      [duplicate_checker |-> [num_perm |-> 128]],
      [duplicate_checker |-> [sim_threshold |-> 50]] }

\* settings of a component with the keys of the documented option schema
\* (utils.build_initial_config, the default_config of test_base_pipeline)
DocumentedSettings(name, status) ==
    CASE name = "pattern_replacer" ->
            [status |-> status, pattern |-> 2, target |-> <<"|">>]
      [] name = "ml_inference" ->
            [status |-> status,
             models |-> [default |-> [device |-> "cpu", model_path |-> "prajjwal1/bert-mini",
                                      tokenizer_path |-> "prajjwal1/bert-mini",
                                      max_length |-> 512]],
             use_preped_text |-> TRUE]
      [] OTHER -> SettingsFor(name, status)

\* the status maps with at most two components not enabled
StatusMaps ==
    {[name \in NameSet |-> IF name = a THEN x ELSE IF name = b THEN y ELSE "enabled"] :
        <<a, b>> \in NameSet \X NameSet, <<x, y>> \in Statuses \X Statuses}

\* the configurations naming the twelve components, with the keys the
\* _init_* methods read or with the documented keys
CtorConfigs ==
    {[order |-> ComponentNames,
      settings |-> [name \in NameSet |->
                       IF documented THEN DocumentedSettings(name, status[name])
                       ELSE SettingsFor(name, status[name])]] :
        documented \in BOOLEAN, status \in StatusMaps}

\* "i d x."
TextA == <<"i", " ", "d", " ", "x", ".">>
\* "i d d x.|i d x."
TextB == <<"i", " ", "d", " ", "d", " ", "x", ".", "|", "i", " ", "d", " ", "x", ".">>
\* "x y."
TextC == <<"x", " ", "y", ".">>
\* "d. i d x."
TextD == <<"d", ".", " ", "i", " ", "d", " ", "x", ".">>

\* a note that comes with the section of an earlier processing
Resubmitted ==
    [Note(TextA) EXCEPT !.sections = <<[Section(TextA, 0, 6) EXCEPT !.is_important = TRUE]>>,
                        !.preprocessed_text = Some(TextA)]

NoteExamples == {Note(TextA), Note(TextB), Note(TextC), Note(TextD)}

BatchNoteExamples == {Note(TextA), Note(TextC), Resubmitted}

RECURSIVE SeqsUpTo(_, _)
SeqsUpTo(S, n) ==
    IF n = 0 THEN {<<>>}
    ELSE SeqsUpTo(S, n - 1) \cup {Append(q, x) : q \in {r \in SeqsUpTo(S, n - 1) : Len(r) = n - 1}, x \in S}

PatientExamples == {Patient("p", notes) : notes \in SeqsUpTo(NoteExamples, MaxNotes)}

\* a batch of one patient more than a chunk of the pool holds, so that the
\* pool has two tasks; the patients differ in their id and in their notes
LargeBatch ==
    [i \in 1..(ChunkSize + 1) |->
        Patient(ToString(i),
                IF i % 3 = 1 THEN <<>>
                ELSE IF i % 3 = 0 THEN <<Note(TextA)>>
                ELSE <<Note(TextC), Note(TextA)>>)]

BatchExamples ==
    SeqsUpTo({Patient("p", <<note>>) : note \in BatchNoteExamples}, MaxPatients)
        \cup {LargeBatch}

MaxSections == 3

\* section texts "i x", "e x", "i d" and "x": with the inclusion keyword "i"
\* and the exclusion keywords "e" and "i d" the first matches the inclusion
\* regex only, the second the exclusion regex only, the third both and the
\* last neither
SectionTexts == {<<"i", " ", "x">>, <<"e", " ", "x">>, <<"i", " ", "d">>, <<"x">>}

IncExample == << <<"i">> >>
ExcExample == << <<"e">>, <<"i", " ", "d">> >>

\* the note whose text is the texts joined by "|", split into its sections
SectionedNote(texts) ==
    SectionSplitterProcess([delimiter |-> Some(<<"|">>)], Note(Join(texts, <<"|">>)), <<>>)

SectionedNotes == {SectionedNote(texts) : texts \in SeqsUpTo(SectionTexts, MaxSections)}

SectionFilterParams == {<<>>, [section_exc_list |-> ExcExample], [fallback |-> FALSE]}

\* ------------------------------------------------------------------------
\* State
\* ------------------------------------------------------------------------

VARIABLES
    ctor,                \* "new", "ok" or "error": the outcome of __init__
    kind,                \* "single" or "batch": the class constructed
    config,              \* the configuration passed to __init__
    components,          \* self.components
    pc,                  \* "idle", or the position of the running process call
    override,            \* the config argument of the running call
    preprocessed_params, \* its preprocess_params result
    patients,            \* the patients of the running call
    note_idx,            \* SinglePipeline: index of the current note
    comp_idx,            \* SinglePipeline: index of the current component
    pool,                \* BatchPipeline: the worker pool of the current phase
    input,               \* history: the patients as passed to the call
    trace,               \* history: the component runs of the call, in order
    dropped,             \* history: the notes for which a component returned None
    prior_nonempty,      \* history: the LSH held entries when the call began
    cache,               \* MLInference._cache: cache key -> pipeline object
    lock,                \* MLInference._lock: the thread that holds it, or None
    thread,              \* the position of each thread in _get_or_load
    loads,               \* history: how often the model of a key was loaded
    obtained,            \* history: the pipeline objects _get_or_load returned
    frame,               \* the local variables of a running component.process
    calls,               \* the process calls that threads run on one SinglePipeline
    passes,              \* history: how often the patient of the call was processed before
    overridden,          \* history: an earlier call on the pipeline had overrides
    loaded_meta,         \* MLInference._loaded_meta: model name -> LoadedMeta
    instances,           \* the MLInference objects constructed, in order
    classified           \* history: the last classification (instance, name, pipeline)

cacheVars == <<cache, lock, thread, loads, obtained>>

metaVars == <<loaded_meta, instances, classified>>

sharingVars == <<calls, passes, overridden, metaVars>>

vars == <<ctor, kind, config, components, pc, override, preprocessed_params, patients,
          note_idx, comp_idx, pool, input, trace, dropped, prior_nonempty, cacheVars, frame,
          sharingVars>>

pipelineVars == <<ctor, kind, config, components, pc, override, preprocessed_params,
                  patients, note_idx, comp_idx, pool, input, trace, dropped, prior_nonempty>>

callVars == <<override, preprocessed_params, patients, note_idx, comp_idx, pool, input,
              trace, dropped, prior_nonempty>>

NoCall ==
    /\ override = <<>>
    /\ preprocessed_params = <<>>
    /\ patients = <<>>
    /\ note_idx = 0
    /\ comp_idx = 0
    /\ pool = NoPool
    /\ input = <<>>
    /\ trace = <<>>
    /\ dropped = {}
    /\ prior_nonempty = FALSE

\* the models a constructed MLInference may name, with the key of each in
\* the cache: (model_name, spec["model_path"])
ModelNames == {"default", "aux"}
CacheKey(model_name) == <<model_name, IF model_name = "default" THEN "path/a" ELSE "path/b">>

NumThreads == 2
Threads == 1..NumThreads

\* no thread is in _get_or_load and the class attributes are as the class
\* statement leaves them
NoThreads ==
    /\ cache = <<>>
    /\ lock = None
    /\ thread = [t \in Threads |-> [pc |-> "idle", todo |-> <<>>, pipe |-> None]]
    /\ loads = [model_name \in ModelNames |-> 0]
    /\ obtained = {}

\* the threads of the API server that call process on the module-level
\* SinglePipeline
Callers == {1, 2}

\* no call of the thread is under way; overlapped is history: another call
\* was under way at some point of this one
NoCallOf ==
    [pc |-> "idle", patient |-> Patient("", <<>>), input |-> Patient("", <<>>),
     preprocessed_params |-> <<>>, note_idx |-> 0, comp_idx |-> 0, overlapped |-> FALSE]

\* no component's process is running step by step; segmented_docs holds the
\* documents that nlp.pipe returned to the last SentenceSegmenter.process
NoFrame ==
    [at |-> "none", section |-> 0, k |-> 0, expanded_indices |-> {}, range_start |-> 0,
     range_end |-> 0, combined_len |-> 0, length_threshold |-> 0, segmented_docs |-> <<>>]

Init ==
    /\ ctor = "new"
    /\ kind = "none"
    /\ config = [order |-> <<>>, settings |-> <<>>]
    /\ components = EmptyComponents
    /\ pc = "idle"
    /\ NoCall
    /\ NoThreads
    /\ frame = NoFrame
    /\ calls = [k \in Callers |-> NoCallOf]
    /\ passes = 0
    /\ overridden = FALSE
    /\ loaded_meta = <<>>
    /\ instances = <<>>
    /\ classified = None

\* SinglePipeline(config) or BatchPipeline(config)
Construct(k, cfg) ==
    /\ ctor = "new"
    /\ kind' = k
    /\ config' = cfg
    /\ IF InitRaises(cfg)
       THEN ctor' = "error" /\ components' = components
       ELSE ctor' = "ok" /\ components' = InitComponents(cfg)
    /\ UNCHANGED <<pc, callVars, cacheVars, sharingVars, frame>>

\* history: the entries of the LSH are marked stale when a call begins
MarkStale(comps) ==
    IF comps["duplicate_checker"].component = None THEN comps
    ELSE [comps EXCEPT !["duplicate_checker"].component[1].lsh.entries =
              {[e EXCEPT !.stale = TRUE] : e \in @}]

\* mutation of AfterClear: clear_lsh stores the effective sim_threshold in
\* the DuplicateChecker
AfterClearStoring(comps, pparams) ==
    IF /\ "duplicate_checker" \in DOMAIN pparams
       /\ pparams["duplicate_checker"].should_process
       /\ comps["duplicate_checker"].component # None
    THEN [comps EXCEPT
             !["duplicate_checker"].component[1].lsh =
                 ClearLsh(Value(comps["duplicate_checker"].component),
                          pparams["duplicate_checker"].params),
             !["duplicate_checker"].component[1].sim_threshold =
                 Some(ClearLsh(Value(comps["duplicate_checker"].component),
                               pparams["duplicate_checker"].params).threshold)]
    ELSE comps

\* the component objects after the clear_lsh block of SinglePipeline.process
AfterClear(comps, pparams) ==
    IF /\ "duplicate_checker" \in DOMAIN pparams
       /\ pparams["duplicate_checker"].should_process
       /\ comps["duplicate_checker"].component # None
    THEN [comps EXCEPT !["duplicate_checker"].component[1].lsh =
              ClearLsh(Value(comps["duplicate_checker"].component),
                       pparams["duplicate_checker"].params)]
    ELSE comps

\* SinglePipeline.process(patient, config) up to the first loop iteration
SingleProcessBegin(p, ov) ==
    /\ ctor = "ok" /\ kind = "single" /\ pc = "idle"
    /\ LET pparams == PreprocessParams(components, ov)
       IN  /\ preprocessed_params' = pparams
           /\ components' = AfterClear(MarkStale(components), pparams)
    /\ prior_nonempty' = (/\ components["duplicate_checker"].component # None
                          /\ Value(components["duplicate_checker"].component).lsh.entries # {})
    /\ override' = ov
    /\ patients' = <<p>>
    /\ input' = <<p>>
    /\ note_idx' = 1
    /\ comp_idx' = 1
    /\ trace' = <<>>
    /\ dropped' = {}
    /\ pc' = "single"
    /\ UNCHANGED <<frame, cacheVars, sharingVars, ctor, kind, config, pool>>

\* mutation of NextPosition: the inner loop goes on after a component
\* returned None
NextPositionNoBreak(brk) ==
    IF comp_idx = Len(OrderedComponents(config))
    THEN [note_idx |-> note_idx + 1, comp_idx |-> 1]
    ELSE [note_idx |-> note_idx, comp_idx |-> comp_idx + 1]

\* the loops' position after an iteration of the inner loop; brk tells that
\* the iteration ended with `break`
NextPosition(brk) ==
    IF brk \/ comp_idx = Len(OrderedComponents(config))
    THEN [note_idx |-> note_idx + 1, comp_idx |-> 1]
    ELSE [note_idx |-> note_idx, comp_idx |-> comp_idx + 1]

\* the iteration ran the component, which returned r
Processed(component_name, r) ==
    /\ components' = [components EXCEPT ![component_name].component = Some(r.self)]
    /\ trace' = Append(trace, [patient |-> 1, note |-> note_idx, component |-> component_name])
    /\ patients' = [patients EXCEPT ![1].notes[note_idx] =
                       IF r.none THEN [r.note EXCEPT !.preprocessed_text = Some(<<>>)]
                       ELSE r.note]
    /\ dropped' = IF r.none THEN dropped \cup {<<1, note_idx>>} ELSE dropped
    /\ note_idx' = NextPosition(r.none).note_idx
    /\ comp_idx' = NextPosition(r.none).comp_idx

\* one iteration of the inner loop of SinglePipeline.process
SingleStep ==
    /\ pc = "single"
    /\ note_idx <= Len(patients[1].notes)
    /\ LET component_name == OrderedComponents(config)[comp_idx]
           component == components[component_name].component
       IN  IF component = None \/ ~preprocessed_params[component_name].should_process
           THEN /\ note_idx' = NextPosition(FALSE).note_idx
                /\ comp_idx' = NextPosition(FALSE).comp_idx
                /\ UNCHANGED <<pc, components, patients, trace, dropped>>
           ELSE IF ProcessRaises(component_name, Value(component),
                                 preprocessed_params[component_name].params)
           THEN /\ pc' = "raised"
                /\ UNCHANGED <<components, patients, trace, dropped, note_idx, comp_idx>>
           ELSE IF ComponentRaises(component_name, Value(component),
                                   patients[1].notes[note_idx],
                                   preprocessed_params[component_name].params)
           THEN /\ pc' = "raised"
                /\ components' =
                       [components EXCEPT ![component_name].component[1].lsh =
                           QueryAttempted(Value(component), patients[1].notes[note_idx],
                                          preprocessed_params[component_name].params)]
                /\ UNCHANGED <<patients, trace, dropped, note_idx, comp_idx>>
           ELSE /\ Processed(component_name,
                             ComponentProcess(component_name, Value(component),
                                              patients[1].notes[note_idx],
                                              preprocessed_params[component_name].params))
                /\ pc' = pc
    /\ UNCHANGED <<frame, cacheVars, sharingVars, ctor, kind, config, override, preprocessed_params, pool, input,
                   prior_nonempty>>

\* return patient
SingleReturn ==
    /\ pc = "single"
    /\ note_idx > Len(patients[1].notes)
    /\ pc' = "returned"
    /\ UNCHANGED <<frame, cacheVars, sharingVars, ctor, kind, config, components, callVars>>

\* BatchPipeline.process(patients, config) up to the start of the first pool
BatchProcessBegin(ps, ov) ==
    /\ ctor = "ok" /\ kind = "batch" /\ pc = "idle"
    /\ LET pparams == PreprocessParams(components, ov)
       IN  /\ preprocessed_params' = pparams
           /\ pool' = StartPool(ps, Phase1Components, components, pparams)
    /\ components' = MarkStale(components)
    /\ prior_nonempty' = (/\ components["duplicate_checker"].component # None
                          /\ Value(components["duplicate_checker"].component).lsh.entries # {})
    /\ override' = ov
    /\ patients' = ps
    /\ input' = ps
    /\ note_idx' = 0
    /\ comp_idx' = 0
    /\ trace' = <<>>
    /\ dropped' = {}
    /\ pc' = "phase1"
    /\ UNCHANGED <<frame, cacheVars, sharingVars, ctor, kind, config>>

\* the result r of the task of patient i reaches the pool
TaskDone(c, i, r) ==
    /\ pool' = IF r.raised THEN [pool EXCEPT !.raised[c] = TRUE]
               ELSE [pool EXCEPT !.serialized[i] = r.bytes,
                                 !.comps[c] = r.comps,
                                 !.done[c] = @ + 1]
    /\ trace' = trace \o [k \in 1..Len(r.ran) |->
                             [patient |-> i, note |-> r.ran[k].note,
                              component |-> r.ran[k].component]]
    /\ dropped' = dropped \cup {<<i, n>> : n \in r.nones}

\* the worker of chunk c runs _partial_process_phase on its next patient
PoolWorker(c) ==
    /\ pc \in {"phase1", "phase3"}
    /\ c \in DOMAIN pool.done
    /\ ~pool.raised[c]
    /\ pool.done[c] < Len(ChunkItems(c, Len(pool.serialized)))
    /\ TaskDone(c, ChunkItems(c, Len(pool.serialized))[pool.done[c] + 1],
                PartialProcessPhase(
                    pool.serialized[ChunkItems(c, Len(pool.serialized))[pool.done[c] + 1]],
                    pool.todo, pool.comps[c], preprocessed_params))
    /\ UNCHANGED <<frame, cacheVars, sharingVars, ctor, kind, config, components, pc, override, preprocessed_params,
                   patients, note_idx, comp_idx, input, prior_nonempty>>

\* mutation of PoolRaise: the patients of the task that raised are left as
\* they were and the call goes on
PoolRaiseIsolated ==
    /\ pc \in {"phase1", "phase3"}
    /\ \E c \in DOMAIN pool.raised :
           /\ pool.raised[c]
           /\ \A b \in 1..(c - 1) : pool.done[b] = Len(ChunkItems(b, Len(pool.serialized)))
    /\ patients' = [i \in 1..Len(pool.serialized) |-> PickleLoads(pool.serialized[i])]
    /\ pool' = NoPool
    /\ pc' = IF pc = "phase1" THEN "segment" ELSE "infer"
    /\ UNCHANGED <<frame, cacheVars, sharingVars, ctor, kind, config, components, override, preprocessed_params,
                   note_idx, comp_idx, input, trace, dropped, prior_nonempty>>

\* list(pool.map(...)) takes the results chunk by chunk in the order of
\* submission and reaches a chunk whose task raised: the error leaves
\* _process_phase_multiprocessing and BatchPipeline.process, neither of
\* which catches anything; the tasks still to run are given up
PoolRaise ==
    /\ pc \in {"phase1", "phase3"}
    /\ \E c \in DOMAIN pool.raised :
           /\ pool.raised[c]
           /\ \A b \in 1..(c - 1) : pool.done[b] = Len(ChunkItems(b, Len(pool.serialized)))
    /\ patients' = <<>>
    /\ pc' = "raised"
    /\ UNCHANGED <<frame, cacheVars, sharingVars, ctor, kind, config, components, override, preprocessed_params,
                   note_idx, comp_idx, pool, input, trace, dropped, prior_nonempty>>

\* mutation of PoolJoin: the results are taken without waiting for the tasks
PoolJoinEarly ==
    /\ pc \in {"phase1", "phase3"}
    /\ patients' = IF pool.todo = <<>> THEN patients
                   ELSE [i \in 1..Len(pool.serialized) |-> PickleLoads(pool.serialized[i])]
    /\ pool' = NoPool
    /\ pc' = IF pc = "phase1" THEN "segment" ELSE "infer"
    /\ UNCHANGED <<frame, cacheVars, sharingVars, ctor, kind, config, components, override, preprocessed_params,
                   note_idx, comp_idx, input, trace, dropped, prior_nonempty>>

\* mutation of PoolJoin: the results are taken one place further on
PoolJoinRotated ==
    /\ pc \in {"phase1", "phase3"}
    /\ \A c \in DOMAIN pool.done : pool.done[c] = Len(ChunkItems(c, Len(pool.serialized)))
    /\ patients' = IF pool.todo = <<>> THEN patients
                   ELSE [i \in 1..Len(pool.serialized) |->
                            PickleLoads(pool.serialized[(i % Len(pool.serialized)) + 1])]
    /\ pool' = NoPool
    /\ pc' = IF pc = "phase1" THEN "segment" ELSE "infer"
    /\ UNCHANGED <<frame, cacheVars, sharingVars, ctor, kind, config, components, override, preprocessed_params,
                   note_idx, comp_idx, input, trace, dropped, prior_nonempty>>

\* _process_phase_multiprocessing returns: the patients unchanged when no
\* component of the phase is to run, else the unpickled results
PoolJoin ==
    /\ pc \in {"phase1", "phase3"}
    /\ \A c \in DOMAIN pool.done : pool.done[c] = Len(ChunkItems(c, Len(pool.serialized)))
    /\ patients' = IF pool.todo = <<>> THEN patients
                   ELSE [i \in 1..Len(pool.serialized) |-> PickleLoads(pool.serialized[i])]
    /\ pool' = NoPool
    /\ pc' = IF pc = "phase1" THEN "segment" ELSE "infer"
    /\ UNCHANGED <<frame, cacheVars, sharingVars, ctor, kind, config, components, override, preprocessed_params,
                   note_idx, comp_idx, input, trace, dropped, prior_nonempty>>

\* the sentence_segmenter block of BatchPipeline.process, then the start of
\* the second pool
BatchSegment ==
    /\ pc = "segment"
    /\ LET run == /\ "sentence_segmenter" \in DOMAIN preprocessed_params
                  /\ preprocessed_params["sentence_segmenter"].should_process
           ps == IF run THEN SentenceSegmenterProcessBatchPatients(patients) ELSE patients
       IN  /\ patients' = ps
           /\ trace' = IF run
                       THEN trace \o [k \in 1..Len(AllNotes(patients)) |->
                                         [patient |-> AllNotes(patients)[k].patient,
                                          note |-> AllNotes(patients)[k].note,
                                          component |-> "sentence_segmenter"]]
                       ELSE trace
           /\ pool' = StartPool(ps, Phase3Components, components, preprocessed_params)
    /\ pc' = "phase3"
    /\ UNCHANGED <<frame, cacheVars, sharingVars, ctor, kind, config, components, override, preprocessed_params,
                   note_idx, comp_idx, input, dropped, prior_nonempty>>

\* the ml_inference block of BatchPipeline.process, then return patients
BatchInfer ==
    /\ pc = "infer"
    /\ LET run == /\ "ml_inference" \in DOMAIN preprocessed_params
                  /\ preprocessed_params["ml_inference"].should_process
       IN  /\ patients' = IF run
                          THEN MLInferenceProcessBatchPatients(
                                   Value(components["ml_inference"].component), patients, <<>>)
                          ELSE patients
           /\ trace' = IF run
                       THEN trace \o [k \in 1..Len(AllNotes(patients)) |->
                                         [patient |-> AllNotes(patients)[k].patient,
                                          note |-> AllNotes(patients)[k].note,
                                          component |-> "ml_inference"]]
                       ELSE trace
    /\ pc' = "returned"
    /\ UNCHANGED <<frame, cacheVars, sharingVars, ctor, kind, config, components, override, preprocessed_params,
                   note_idx, comp_idx, pool, input, dropped, prior_nonempty>>

\* the caller drops the returned patients; the pipeline object stays
Release ==
    /\ pc \in {"returned", "raised"}
    /\ pc' = "idle"
    /\ override' = <<>>
    /\ preprocessed_params' = <<>>
    /\ patients' = <<>>
    /\ note_idx' = 0
    /\ comp_idx' = 0
    /\ pool' = NoPool
    /\ input' = <<>>
    /\ trace' = <<>>
    /\ dropped' = {}
    /\ prior_nonempty' = FALSE
    /\ passes' = 0
    /\ UNCHANGED <<frame, cacheVars, calls, overridden, metaVars, ctor, kind, config, components>>

\* the same, with the history of the overrides kept
ReleaseNoting ==
    /\ pc \in {"returned", "raised"}
    /\ pc' = "idle"
    /\ override' = <<>>
    /\ preprocessed_params' = <<>>
    /\ patients' = <<>>
    /\ note_idx' = 0
    /\ comp_idx' = 0
    /\ pool' = NoPool
    /\ input' = <<>>
    /\ trace' = <<>>
    /\ dropped' = {}
    /\ prior_nonempty' = FALSE
    /\ passes' = 0
    /\ overridden' = (overridden \/ (pc = "returned" /\ override # <<>>))
    /\ UNCHANGED <<frame, cacheVars, calls, metaVars, ctor, kind, config, components>>

Next ==
    \/ \E k \in {"single", "batch"}, cfg \in RunConfigs : Construct(k, cfg)
    \/ \E p \in PatientExamples, ov \in Overrides : SingleProcessBegin(p, ov)
    \/ SingleStep
    \/ SingleReturn
    \/ \E ps \in BatchExamples, ov \in Overrides : BatchProcessBegin(ps, ov)
    \/ \E c \in 1..NumChunks(ChunkSize + 1) : PoolWorker(c)
    \/ PoolJoin
    \/ PoolRaise
    \/ BatchSegment
    \/ BatchInfer
    \/ Release

Spec == Init /\ [][Next]_vars

\* ------------------------------------------------------------------------
\* Properties
\* ------------------------------------------------------------------------

\* the documented stage order
StageOrder ==
    <<"encoding_fixer", "pattern_replacer", "word_masker", "note_filter",
      "section_splitter", "section_filter", "sentence_segmenter", "duplicate_checker",
      "sentence_filter", "sentence_expander", "joiner", "ml_inference">>

StageIndex(name) == CHOOSE k \in 1..Len(StageOrder) : StageOrder[k] = name

\* the status the call's override map gives the stage if it gives one, else
\* the status of the construction config
EffectiveStatus(name) ==
    IF name \in DOMAIN override /\ "status" \in DOMAIN override[name]
    THEN override[name].status
    ELSE config.settings[name].status

\* the stage was instantiated at construction and is effectively enabled
MayRun(name) ==
    /\ name \in DOMAIN config.settings
    /\ config.settings[name].status # "excluded"
    /\ EffectiveStatus(name) = "enabled"

InCall == ctor = "ok" /\ pc # "idle"

\* the positions <<patient, note, section, sentence>> of the sentences of ps
SentencePositions(ps) ==
    {<<i, n, s, j>> \in (1..MaxPatients + 1) \X (1..MaxNotes + 1) \X (1..4) \X (1..4) :
        /\ i <= Len(ps)
        /\ n <= Len(ps[i].notes)
        /\ s <= Len(ps[i].notes[n].sections)
        /\ j <= Len(ps[i].notes[n].sections[s].sentences)}

SentenceAt(ps, q) == ps[q[1]].notes[q[2]].sections[q[3]].sentences[q[4]]

\* C1: in a SinglePipeline call the stage runs happen note by note in input
\* order, and on one note in the documented twelve-stage order, whatever the
\* key order of the construction config: each stage run is on a later note
\* than the run before it, or on the same note at a later stage.
C1_FixedOrder ==
    (InCall /\ kind = "single") =>
        \A k \in 1..Len(trace) - 1 :
            \/ trace[k].note < trace[k + 1].note
            \/ /\ trace[k].note = trace[k + 1].note
               /\ StageIndex(trace[k].component) < StageIndex(trace[k + 1].component)

\* a call on a pipeline built from a config with the keys in another order
\* has run the last stage on its second note
C1_Witness ==
    /\ kind = "single" /\ pc = "returned"
    /\ config.order # StageOrder
    /\ Len(trace) > 12
    /\ trace[Len(trace)] = [patient |-> 1, note |-> 2, component |-> "joiner"]

\* C2: in a SinglePipeline or BatchPipeline call a stage runs on a note only
\* if it was instantiated at construction (status not excluded) and its
\* effective status is enabled; and while sentence_filter is not effectively
\* enabled no sentence is marked important (the input sentences are not).
C2_RunsOnlyIfEnabled ==
    InCall =>
        /\ \A k \in 1..Len(trace) : MayRun(trace[k].component)
        /\ ~MayRun("sentence_filter") =>
               \A q \in SentencePositions(patients) : ~SentenceAt(patients, q).is_important

\* an override has enabled the sentence_filter of a pipeline constructed with
\* it disabled: it ran and marked a sentence
C2_Witness ==
    /\ pc = "returned"
    /\ config.settings["sentence_filter"].status = "disabled"
    /\ \E k \in 1..Len(trace) : trace[k].component = "sentence_filter"
    /\ \E q \in SentencePositions(patients) : SentenceAt(patients, q).is_important

\* the value the call's override map gives the option if it gives one, else
\* the value of the construction config
EffectiveSetting(name, key) ==
    IF name \in DOMAIN override /\ key \in DOMAIN override[name]
    THEN override[name][key]
    ELSE config.settings[name][key]

\* the stages that ran on note n of patient i, from the history
StagesRunOn(i, n) ==
    {trace[k].component : k \in {m \in 1..Len(trace) : trace[m].patient = i /\ trace[m].note = n}}

\* C4: in a SinglePipeline call, a note for which NoteFilter returned None
\* has preprocessed_text "" and no stage after note_filter runs on it: its
\* sections (with their sentences) and its prediction are those of the
\* input; and when the call returns every other note has passed through all
\* the stages that may run.
C4_DroppedNoteSkipped ==
    (InCall /\ kind = "single") =>
        \A n \in 1..Len(patients[1].notes) :
            IF <<1, n>> \in dropped
            THEN /\ patients[1].notes[n].preprocessed_text = Some(<<>>)
                 /\ patients[1].notes[n].sections = input[1].notes[n].sections
                 /\ patients[1].notes[n].predicted_label = input[1].notes[n].predicted_label
                 /\ patients[1].notes[n].predicted_score = input[1].notes[n].predicted_score
                 /\ "note_filter" \in StagesRunOn(1, n)
                 /\ \A name \in StagesRunOn(1, n) : StageIndex(name) <= StageIndex("note_filter")
            ELSE pc = "returned" =>
                     StagesRunOn(1, n) = {name \in SeqToSet(StageOrder) : MayRun(name)}

\* the first note was dropped and the second has been segmented
C4_Witness ==
    /\ kind = "single" /\ pc = "returned"
    /\ Len(patients[1].notes) = 2
    /\ dropped = {<<1, 1>>}
    /\ patients[1].notes[1].preprocessed_text = Some(<<>>)
    /\ \E s \in 1..Len(patients[1].notes[2].sections) :
           patients[1].notes[2].sections[s].sentences # <<>>

\* C5: when a BatchPipeline call returns, a note for which NoteFilter
\* returned None in the first pool has preprocessed_text "", no segmented
\* sentences and no predicted_label.
C5_BatchDroppedNoteSkipped ==
    (InCall /\ kind = "batch" /\ pc = "returned") =>
        \A d \in dropped :
            LET note == patients[d[1]].notes[d[2]]
            IN  /\ note.preprocessed_text = Some(<<>>)
                /\ \A s \in 1..Len(note.sections) : note.sections[s].sentences = <<>>
                /\ note.predicted_label = None

\* self.lsh of the pipeline's DuplicateChecker
Lsh == Value(components["duplicate_checker"].component).lsh

\* C6: throughout a SinglePipeline call in which duplicate_checker may run,
\* the LSH holds no entry inserted during an earlier call, and it is empty
\* until the stage first runs in this call.
C6_LshEmptyAtStart ==
    (InCall /\ kind = "single" /\ MayRun("duplicate_checker")) =>
        /\ \A e \in Lsh.entries : ~e.stale
        /\ "duplicate_checker" \notin {trace[k].component : k \in 1..Len(trace)} =>
               Lsh.entries = {}

\* a call in which duplicate_checker ran began with entries of an earlier
\* call in the LSH
C6_Witness ==
    /\ kind = "single" /\ pc = "returned"
    /\ prior_nonempty
    /\ MayRun("duplicate_checker")
    /\ Lsh.entries # {}

\* the sentences of the call's patient that are at least as long as the
\* effective length_threshold, and their order (note, section, sentence)
LongSentences ==
    {q \in SentencePositions(patients) :
        Len(SentenceAt(patients, q).text) >= EffectiveSetting("duplicate_checker", "length_threshold")}

Before(p, q) ==
    \/ p[2] < q[2]
    \/ p[2] = q[2] /\ p[3] < q[3]
    \/ p[2] = q[2] /\ p[3] = q[3] /\ p[4] < q[4]

FirstOfItsText(q) ==
    ~\E p \in LongSentences :
        Before(p, q) /\ SentenceAt(patients, p).text = SentenceAt(patients, q).text

\* the section-local index of q is in its section's duplicate_indices
Listed(q) ==
    (q[4] - 1) \in SeqToSet(patients[q[1]].notes[q[2]].sections[q[3]].duplicate_indices)

\* C7 as stated: when a SinglePipeline call in which duplicate_checker ran
\* returns, of the long sentences with one text exactly the first is not
\* marked duplicate, and the later ones are marked and listed.
C7_ExactlyFirstKept ==
    (InCall /\ kind = "single" /\ pc = "returned" /\ MayRun("duplicate_checker")) =>
        \A q \in LongSentences :
            IF FirstOfItsText(q) THEN ~SentenceAt(patients, q).is_duplicate
            ELSE SentenceAt(patients, q).is_duplicate /\ Listed(q)

\* an earlier long sentence, not marked duplicate, whose word set is similar
\* enough to that of q
SimilarEarlier(q) ==
    \E p \in LongSentences :
        /\ Before(p, q)
        /\ ~SentenceAt(patients, p).is_duplicate
        /\ Similar(SeqToSet(SplitWords(SentenceAt(patients, p).text)),
                   SeqToSet(SplitWords(SentenceAt(patients, q).text)),
                   EffectiveSetting("duplicate_checker", "sim_threshold"))

\* C7 amended: when a SinglePipeline call in which duplicate_checker ran
\* returns, of the long sentences with one text every one after the first is
\* marked duplicate and listed; the first is marked (and listed) exactly
\* when an earlier long sentence of the call that was not marked is similar
\* enough to it.
C7_LaterAreDuplicates ==
    (InCall /\ kind = "single" /\ pc = "returned" /\ MayRun("duplicate_checker")) =>
        \A q \in LongSentences :
            /\ ~FirstOfItsText(q) => SentenceAt(patients, q).is_duplicate
            /\ SentenceAt(patients, q).is_duplicate <=> SimilarEarlier(q)
            /\ SentenceAt(patients, q).is_duplicate <=> Listed(q)

\* the first sentence with its text is marked duplicate, and a later sentence
\* with the text of an earlier one is marked too
C7_Witness ==
    /\ kind = "single" /\ pc = "returned" /\ MayRun("duplicate_checker")
    /\ \E q \in LongSentences : FirstOfItsText(q) /\ SentenceAt(patients, q).is_duplicate
    /\ \E q \in LongSentences : ~FirstOfItsText(q) /\ SentenceAt(patients, q).is_duplicate

\* C8: in a call in which duplicate_checker may run, a sentence shorter than
\* the effective length_threshold (that of the override map when it gives
\* one, else that of the construction config) is not marked duplicate and
\* not listed in duplicate_indices, and in a SinglePipeline call its text was
\* neither queried nor inserted.  The input sentences are not marked.
C8_ShortSentencesIgnored ==
    (InCall /\ MayRun("duplicate_checker")) =>
        \A q \in SentencePositions(patients) \ LongSentences :
            /\ ~SentenceAt(patients, q).is_duplicate
            /\ ~Listed(q)
            /\ kind = "single" =>
                   /\ SentenceAt(patients, q).text \notin Lsh.queried
                   /\ \A e \in Lsh.entries : e.text # SentenceAt(patients, q).text

\* under an overriding length_threshold two sentences with the same text,
\* longer than the threshold of the instance, went through duplicate_checker
\* unmarked
C8_Witness ==
    /\ kind = "single" /\ pc = "returned" /\ MayRun("duplicate_checker")
    /\ "duplicate_checker" \in DOMAIN override
    /\ "length_threshold" \in DOMAIN override["duplicate_checker"]
    /\ \E p, q \in SentencePositions(patients) \ LongSentences :
           /\ p # q
           /\ SentenceAt(patients, p).text = SentenceAt(patients, q).text
           /\ Len(SentenceAt(patients, p).text) >=
                  config.settings["duplicate_checker"].length_threshold

\* ------------------------------------------------------------------------
\* A SectionFilter constructed and called directly, as the component tests do
\* ------------------------------------------------------------------------

\* SectionFilter(section_inc_list=..., section_exc_list=..., fallback=...)
SFConstruct(inc_list, exc_list, fallback) ==
    /\ ctor = "new"
    /\ ctor' = "ok"
    /\ kind' = "section_filter"
    /\ components' = [components EXCEPT !["section_filter"].component =
                         Some(SectionFilterInit(inc_list, exc_list, fallback))]
    /\ UNCHANGED <<config, pc, callVars, cacheVars, sharingVars, frame>>

\* section_filter.process(note, **params)
SFProcess(note, params) ==
    /\ ctor = "ok" /\ kind = "section_filter" /\ pc = "idle"
    /\ input' = <<Patient("p", <<note>>)>>
    /\ patients' = <<Patient("p", <<SectionFilterProcess(
                                        Value(components["section_filter"].component),
                                        note, params)>>)>>
    /\ override' = [section_filter |-> params]
    /\ trace' = <<[patient |-> 1, note |-> 1, component |-> "section_filter"]>>
    /\ pc' = "returned"
    /\ UNCHANGED <<frame, cacheVars, sharingVars, ctor, kind, config, components, preprocessed_params, note_idx, comp_idx,
                   pool, dropped, prior_nonempty>>

NextSF ==
    \/ \E exc_list \in {None, Some(ExcExample)}, fallback \in BOOLEAN :
           SFConstruct(Some(IncExample), exc_list, fallback)
    \/ \E note \in SectionedNotes, params \in SectionFilterParams : SFProcess(note, params)
    \/ Release

SpecSF == Init /\ [][NextSF]_vars

SFReturned == ctor = "ok" /\ kind = "section_filter" /\ pc = "returned"

\* the option in effect in the call: that of the call when given, else that
\* of the instance
SFOption(key) ==
    IF key \in DOMAIN override["section_filter"]
    THEN Some(override["section_filter"][key])
    ELSE Value(components["section_filter"].component)[key]

SectionsIn == input[1].notes[1].sections
SectionsOut == patients[1].notes[1].sections

Inc(k) == IncMatch(SFOption("section_inc_list"), SectionsIn[k].text)
Exc(k) == ExcMatch(SFOption("section_exc_list"), SectionsIn[k].text)

\* the inclusion block is open once section k has been visited: inclusion
\* is looked at first, an exclusion match closes the block
RECURSIVE BlockOpen(_)
BlockOpen(k) ==
    IF k = 0 THEN FALSE
    ELSE IF Inc(k) THEN TRUE
    ELSE IF Exc(k) THEN FALSE
    ELSE BlockOpen(k - 1)

\* the sections of the input with index in K, in their order, marked
RECURSIVE MarkedFrom(_, _)
MarkedFrom(K, k) ==
    IF k > Len(SectionsIn) THEN <<>>
    ELSE (IF k \in K THEN <<[SectionsIn[k] EXCEPT !.is_important = TRUE]>> ELSE <<>>)
             \o MarkedFrom(K, k + 1)

VisitedOpen == {k \in 1..Len(SectionsIn) : BlockOpen(k)}
VisitedOpenNotExcluded == {k \in 1..Len(SectionsIn) : BlockOpen(k) /\ ~Exc(k)}

\* the call falls back: fallback is in effect and the pass would keep nothing
FallsBack(K) == K = {} /\ Value(SFOption("fallback"))

\* C9 as stated: unless the call falls back, SectionFilter leaves in the note
\* exactly the sections visited while the inclusion block is open, in their
\* order, each marked important.
C9_KeepsOpenBlock ==
    (SFReturned /\ ~FallsBack(VisitedOpen)) => SectionsOut = MarkedFrom(VisitedOpen, 1)

\* C9 amended: unless the call falls back, SectionFilter leaves in the note
\* exactly the sections visited while the inclusion block is open whose text
\* does not match the exclusion regex, in their order, each marked
\* important.
C9_KeepsOpenBlockNotExcluded ==
    (SFReturned /\ ~FallsBack(VisitedOpenNotExcluded)) =>
        SectionsOut = MarkedFrom(VisitedOpenNotExcluded, 1)

\* a block was opened, went over a section matching neither list and was
\* closed by a section matching the exclusion regex only
C9_Witness ==
    /\ SFReturned
    /\ SectionsOut # <<>>
    /\ \E k \in 2..Len(SectionsIn) : BlockOpen(k) /\ ~Inc(k) /\ ~Exc(k)
    /\ \E k \in 2..Len(SectionsIn) : BlockOpen(k - 1) /\ (Exc(k) /\ ~Inc(k))

\* section k of the input is in the output, marked
KeptMarked(k) ==
    \E m \in 1..Len(SectionsOut) : SectionsOut[m] = [SectionsIn[k] EXCEPT !.is_important = TRUE]

\* C10 as stated: a section matching both the inclusion and the exclusion
\* regex is kept and marked important.
C10_TieKept ==
    SFReturned => \A k \in 1..Len(SectionsIn) : (Inc(k) /\ Exc(k)) => KeptMarked(k)

\* C10 amended: unless the call falls back, a section matching both regexes
\* opens the inclusion block or leaves it open, so that a following section
\* matching neither list is kept and marked, but it is not kept itself.
C10_TieOpensNotKept ==
    (SFReturned /\ ~FallsBack(VisitedOpenNotExcluded)) =>
        \A k \in 1..Len(SectionsIn) :
            (Inc(k) /\ Exc(k)) =>
                /\ ~\E m \in 1..Len(SectionsOut) :
                       SectionsOut[m].start_index = SectionsIn[k].start_index
                /\ (k < Len(SectionsIn) /\ ~Inc(k + 1) /\ ~Exc(k + 1)) => KeptMarked(k + 1)

\* the first section matches both regexes and the second neither: the second
\* alone is kept
C10_Witness ==
    /\ SFReturned
    /\ Len(SectionsIn) = 2
    /\ Inc(1) /\ Exc(1)
    /\ ~Inc(2) /\ ~Exc(2)
    /\ SectionsOut = <<[SectionsIn[2] EXCEPT !.is_important = TRUE]>>

\* Construction alone, over the configurations that name the twelve stages
NextCtor == \E k \in {"single", "batch"}, cfg \in CtorConfigs : Construct(k, cfg)

SpecCtor == Init /\ [][NextCtor]_vars

\* the options the documented schema recognizes for a stage
DocumentedOptions(name) ==
    CASE name = "encoding_fixer"     -> {"status"}
      [] name = "pattern_replacer"   -> {"status", "pattern", "target"}
      [] name = "word_masker"        -> {"status", "words_to_mask", "mask_char"}
      [] name = "note_filter"        -> {"status", "words_to_search"}
      [] name = "section_splitter"   -> {"status", "delimiter"}
      [] name = "section_filter"     ->
            {"status", "section_inc_list", "section_exc_list", "fallback"}
      [] name = "sentence_segmenter" -> {"status", "model_name", "batch_size"}
      [] name = "duplicate_checker"  ->
            {"status", "num_perm", "sim_threshold", "length_threshold"}
      [] name = "sentence_filter"    -> {"status", "words_to_search"}
      [] name = "sentence_expander"  -> {"status", "length_threshold"}
      [] name = "joiner"             -> {"status", "sentence_delimiter", "section_delimiter"}
      [] name = "ml_inference"       -> {"status", "models", "use_preped_text"}

FollowsSchema(cfg) ==
    /\ DOMAIN cfg.settings = SeqToSet(StageOrder)
    /\ \A name \in DOMAIN cfg.settings : DOMAIN cfg.settings[name] \subseteq DocumentedOptions(name)

\* C3: constructing a pipeline from a configuration that names the twelve
\* stages with settings of the documented option schema succeeds and gives
\* every stage an instance exactly when its status is not excluded, with the
\* status recorded as given.
C3_InstanceIffNotExcluded ==
    (ctor # "new" /\ FollowsSchema(config)) =>
        /\ ctor = "ok"
        /\ \A name \in DOMAIN config.settings :
              /\ components[name].component # None <=> config.settings[name].status # "excluded"
              /\ components[name].status = Some(config.settings[name].status)

\* a documented-schema configuration with pattern_replacer and ml_inference
\* excluded constructs, and the other stages are as C3 says
C3_Witness ==
    /\ ctor = "ok" /\ FollowsSchema(config)
    /\ components["pattern_replacer"].component = None
    /\ components["ml_inference"].component = None
    /\ components["word_masker"].component # None

\* ------------------------------------------------------------------------
\* SectionFilter: the fallback
\* ------------------------------------------------------------------------

\* the parameters of the call with the opposite fallback in effect
OppositeFallback ==
    [key \in DOMAIN override["section_filter"] \cup {"fallback"} |->
        IF key = "fallback" THEN ~Value(SFOption("fallback"))
        ELSE override["section_filter"][key]]

\* C11: when the pass keeps no section and the fallback is in effect the
\* note keeps all its sections in their order, each marked important; when
\* the pass keeps no section and the fallback is off the note has no
\* sections; when the pass keeps a section the result is the same as with
\* the opposite fallback.
C11_Fallback ==
    SFReturned =>
        /\ (VisitedOpenNotExcluded = {} /\ Value(SFOption("fallback"))) =>
               SectionsOut = MarkedFrom(1..Len(SectionsIn), 1)
        /\ (VisitedOpenNotExcluded = {} /\ ~Value(SFOption("fallback"))) =>
               SectionsOut = <<>>
        /\ VisitedOpenNotExcluded # {} =>
               patients[1].notes[1] =
                   SectionFilterProcess(Value(components["section_filter"].component),
                                        input[1].notes[1], OppositeFallback)

\* a note of two sections, none kept by the pass, came back whole and marked
\* under the fallback
C11_Witness ==
    /\ SFReturned
    /\ Value(SFOption("fallback"))
    /\ VisitedOpenNotExcluded = {}
    /\ Len(SectionsIn) = 2
    /\ Len(SectionsOut) = 2
    /\ \A k \in 1..2 : ~SectionsIn[k].is_important /\ SectionsOut[k].is_important

\* ------------------------------------------------------------------------
\* A component constructed and called directly, as the component tests do
\* ------------------------------------------------------------------------

MaxTextLen == 4
MaxSentences == 2

MaxJoined == 2

\* sections of three sentences as the stages before the Joiner leave them:
\* marked or not, with the indices of the important sentences and of the
\* expanded ones
JoinerSections ==
    {[Section(<<"a", ".", "b", ".", "c", ".">>, 0, 6) EXCEPT
         !.sentences = <<Sentence(<<"a", ".">>, 0, 2), Sentence(<<"b", ".">>, 2, 4),
                         Sentence(<<"c", ".">>, 4, 6)>>,
         !.is_important = is_important,
         !.important_indices = important_indices,
         !.expanded_indices = expanded_indices] :
        is_important \in BOOLEAN,
        important_indices \in {<<>>, <<1>>, <<0, 2>>},
        expanded_indices \in {<<>>, <<0, 1, 2>>}}

\* notes as MLInference gets them: without preprocessed text, with a text
\* and a preprocessed text, with both empty and an earlier prediction, and
\* with a text and an empty preprocessed text
NoteNoPrep == Note(<<"a">>)
NoteBoth == [Note(<<"a", " ", "d">>) EXCEPT !.preprocessed_text = Some(<<"d">>)]
NoteEmpty ==
    [Note(<<>>) EXCEPT !.preprocessed_text = Some(<<>>), !.predicted_label = Some("OLD"),
                       !.predicted_score = Some(0)]
NotePrepEmpty == [Note(<<"x">>) EXCEPT !.preprocessed_text = Some(<<>>)]

MLBatches ==
    SeqsUpTo({Patient("p", <<>>), Patient("q", <<NoteNoPrep>>),
              Patient("r", <<NoteEmpty, NoteBoth>>), Patient("s", <<NotePrepEmpty, NoteNoPrep>>)},
             MaxPatients)

\* the instances, notes and call parameters of the direct calls
DirectInstances(name) ==
    CASE name = "section_splitter" -> {[delimiter |-> Some(<<"|">>)], [delimiter |-> Some(<<"|", "|">>)]}
      [] name = "word_masker" ->
            {[words_to_mask |-> Some(words), mask_char |-> Some(mask_char)] :
                words \in {<<<<"a">>>>, <<<<"a", " ", "b">>, <<"a">>>>, <<>>},
                mask_char \in {<<"*">>, <<"*", "*">>, <<>>}}
                \cup {[words_to_mask |-> None, mask_char |-> Some(<<"*">>)]}
      [] name = "note_filter" ->
            {[words_to_search |-> Some(words)] :
                words \in {<<<<"a">>>>, <<<<"a", " ", "b">>, <<"b">>>>}}
                \cup {[words_to_search |-> None]}
      [] name = "sentence_filter" ->
            {[words_to_search |-> Some(words)] :
                words \in {<<<<"a">>>>, <<<<"a", " ", "b">>, <<"b">>>>}}
      [] name = "section_filter" ->
            {SectionFilterInit(Some(<<<<"i">>>>), exc_list, fallback) :
                exc_list \in {None, Some(<<<<"e">>>>)}, fallback \in BOOLEAN}
                \cup {[section_inc_list |-> Some(<<<<"i">>>>), section_exc_list |-> None, fallback |-> None]}
      [] name = "joiner" ->
            {[sentence_delimiter |-> Some(<<" ">>), section_delimiter |-> Some(section_delimiter)] :
                section_delimiter \in {<<"|">>, <<NL, NL>>}}
      [] name = "ml_inference" ->
            {[use_preped_text |-> use_preped_text] : use_preped_text \in {Some(TRUE), Some(FALSE), None}}
      [] OTHER -> {}

DirectNotes(name) ==
    CASE name = "section_splitter" ->
            {Note(t) : t \in SeqsUpTo({"a", " ", "|"}, MaxTextLen)}
                \cup {[Note(<<"a", "|">>) EXCEPT !.sections = <<Section(<<"a", "|">>, 0, 2)>>]}
      [] name = "word_masker" ->
            {Note(t) : t \in SeqsUpTo({"a", "b", " "}, MaxTextLen)}
      [] name = "note_filter" ->
            {Note(t) : t \in SeqsUpTo({"a", "A", "b", " "}, MaxTextLen)}
      [] name = "sentence_filter" ->
            {[Note(<<"a">>) EXCEPT !.sections =
                 <<[Section(<<"a">>, 0, 1) EXCEPT !.sentences =
                       [k \in 1..Len(texts) |-> Sentence(texts[k], 0, Len(texts[k]))]]>>] :
                texts \in SeqsUpTo({<<"a">>, <<"a", "b">>, <<"a", " ", "b">>, <<"A", ".">>,
                                    <<"b", "a">>, <<"x">>}, MaxSentences)}
      [] name = "section_filter" ->
            {SectionedNote(texts) :
                texts \in SeqsUpTo({<<"i", " ", "x">>, <<"i", "x">>, <<"e", " ", "x">>, <<"e", "x">>,
                                    <<"x">>, <<"I">>}, MaxSections)}
      [] name = "joiner" ->
            {[Note(<<"a", ".", "b", ".", "c", ".">>) EXCEPT !.sections = sections] :
                sections \in SeqsUpTo(JoinerSections, MaxJoined)}
      [] name = "ml_inference" ->
            {NoteNoPrep, NoteBoth, NoteEmpty, NotePrepEmpty}
      [] OTHER -> {}

DirectParams(name) ==
    CASE name = "section_splitter" -> {<<>>, [delimiter |-> <<"a", "|">>]}
      [] name = "word_masker" ->
            {<<>>, [mask_char |-> <<"#">>], [words_to_mask |-> <<<<"B">>>>]}
                \cup {[words_to_mask |-> <<>>], [mask_char |-> <<>>, words_to_mask |-> <<<<"a">>>>]}
      [] name = "note_filter" ->
            {<<>>, [words_to_search |-> <<<<"b", "a">>>>]}
      [] name = "sentence_filter" ->
            {<<>>, [words_to_search |-> <<<<"b", "a">>>>]}
      [] name = "section_filter" ->
            {<<>>, [fallback |-> FALSE]}
      [] name = "joiner" ->
            {<<>>, [sentence_delimiter |-> <<"-">>]}
      [] name = "ml_inference" ->
            {<<>>, [use_preped_text |-> FALSE]}
      [] OTHER -> {}

DirectNames == {"section_splitter", "word_masker", "note_filter", "sentence_filter", "section_filter", "joiner", "ml_inference"}

\* Component(...)
ComponentInit(name, self) ==
    /\ ctor = "new"
    /\ ctor' = "ok"
    /\ kind' = name
    /\ components' = [components EXCEPT ![name].component = Some(self)]
    /\ UNCHANGED <<config, pc, callVars, cacheVars, sharingVars, frame>>

\* component.process(note, **params) returned r
CallReturns(name, r) ==
    /\ patients' = <<Patient("p", <<r.note>>)>>
    /\ components' = [components EXCEPT ![name].component = Some(r.self)]
    /\ dropped' = IF r.none THEN {<<1, 1>>} ELSE {}
    /\ pc' = "returned"

\* component.process(note, **params) raised
CallRaises(note) ==
    /\ patients' = <<Patient("p", <<note>>)>>
    /\ pc' = "raised"
    /\ UNCHANGED <<components, dropped>>

\* component.process(note, **params)
ComponentCall(name, note, params) ==
    /\ ctor = "ok" /\ kind = name /\ pc = "idle"
    /\ input' = <<Patient("p", <<note>>)>>
    /\ override' = [key \in {name} |-> params]
    /\ trace' = <<[patient |-> 1, note |-> 1, component |-> name]>>
    /\ IF ProcessRaises(name, Value(components[name].component), params)
       THEN CallRaises(note)
       ELSE CallReturns(name, ComponentProcess(name, Value(components[name].component),
                                               note, params))
    /\ UNCHANGED <<frame, cacheVars, sharingVars, ctor, kind, config, preprocessed_params, note_idx, comp_idx, pool,
                   prior_nonempty>>

\* ml_inference.process_batch_patients(patients, **params)
MLBatchCall(ps, params) ==
    /\ ctor = "ok" /\ kind = "ml_inference" /\ pc = "idle"
    /\ input' = ps
    /\ override' = [ml_inference |-> params]
    /\ trace' = [k \in 1..Len(AllNotes(ps)) |->
                    [patient |-> AllNotes(ps)[k].patient, note |-> AllNotes(ps)[k].note,
                     component |-> "ml_inference"]]
    /\ IF ProcessRaises("ml_inference", Value(components["ml_inference"].component), params)
       THEN patients' = ps /\ pc' = "raised"
       ELSE /\ patients' = MLInferenceProcessBatchPatients(
                               Value(components["ml_inference"].component), ps, params)
            /\ pc' = "returned"
    /\ UNCHANGED <<frame, cacheVars, sharingVars, ctor, kind, config, components, preprocessed_params, note_idx, comp_idx,
                   pool, dropped, prior_nonempty>>

NextComponent ==
    \/ \E name \in DirectNames : \E self \in DirectInstances(name) : ComponentInit(name, self)
    \/ \E name \in DirectNames : \E note \in DirectNotes(name), params \in DirectParams(name) :
           ComponentCall(name, note, params)
    \/ \E ps \in MLBatches, params \in DirectParams("ml_inference") : MLBatchCall(ps, params)
    \/ Release

SpecComponent == Init /\ [][NextComponent]_vars

\* the direct call of the component returned
Returned(name) == ctor = "ok" /\ kind = name /\ pc = "returned"

NoteIn == input[1].notes[1]
NoteOut == patients[1].notes[1]

\* the option in effect in the direct call
OptionInEffect(name, key) ==
    Value(GetEffectiveParam(Value(components[name].component)[key],
                            Provided(override[name], key)))

\* text[start:end] of Python
Slice(text, start, end) == SubSeq(text, start + 1, end)

\* ------------------------------------------------------------------------
\* SectionSplitter
\* ------------------------------------------------------------------------

\* the sections appended by the call
Produced == SubSeq(NoteOut.sections, Len(NoteIn.sections) + 1, Len(NoteOut.sections))

\* C12: the sections produced for a note with non-blank text tile the text
\* around the delimiter: the first starts at 0, each ends at its start plus
\* the length of its text, the next starts one delimiter after, the last
\* ends at the end of the text, and the text between the offsets of a
\* section is the section's text; a note with blank text gets no sections.
C12_SectionsTile ==
    Returned("section_splitter") =>
        LET d == OptionInEffect("section_splitter", "delimiter")
            n == Len(Produced)
        IN  IF Strip(NoteIn.text) = <<>> THEN Produced = <<>> /\ NoteOut = NoteIn
            ELSE /\ n >= 1
                 /\ NoteOut.text = NoteIn.text
                 /\ Produced[1].start_index = 0
                 /\ Produced[n].end_index = Len(NoteOut.text)
                 /\ \A k \in 1..n :
                        /\ Produced[k].end_index = Produced[k].start_index + Len(Produced[k].text)
                        /\ Slice(NoteOut.text, Produced[k].start_index, Produced[k].end_index)
                               = Produced[k].text
                 /\ \A k \in 1..(n - 1) :
                        Produced[k + 1].start_index = Produced[k].end_index + Len(d)

\* a text with the two-character delimiter in it and an empty piece at its
\* end was split in two
C12_Witness ==
    /\ Returned("section_splitter")
    /\ OptionInEffect("section_splitter", "delimiter") = <<"|", "|">>
    /\ Len(Produced) = 2
    /\ Produced[1].text # <<>>
    /\ Produced[2].text = <<>>

\* ------------------------------------------------------------------------
\* WordMasker
\* ------------------------------------------------------------------------

\* C13: WordMasker.process leaves the length of note.text unchanged, for any
\* words_to_mask and any mask_char.
C13_LengthPreserved ==
    Returned("word_masker") => Len(NoteOut.text) = Len(NoteIn.text)

\* the same with a mask_char of one character
C13_LengthPreservedOneChar ==
    (Returned("word_masker") /\ Len(OptionInEffect("word_masker", "mask_char")) = 1) =>
        Len(NoteOut.text) = Len(NoteIn.text)

\* a word was masked
C13_Witness ==
    /\ Returned("word_masker")
    /\ NoteOut.text # NoteIn.text

\* ------------------------------------------------------------------------
\* Whole-word matching of NoteFilter, SentenceFilter, WordMasker and
\* SectionFilter
\* ------------------------------------------------------------------------

\* every occurrence of the term in the text, letters compared without case,
\* has a character of [A-Za-z0-9] right before it or right after it
OnlyInsideTokens(term, text) ==
    \A p \in 1..Len(text) :
        MatchAt(text, p, term) =>
            \/ (p > 1 /\ text[p - 1] \in Alnum)
            \/ (p + Len(term) <= Len(text) /\ text[p + Len(term)] \in Alnum)

\* the list has terms, each of one character or more, and none occurs in
\* the text other than inside a longer token
NoWholeWord(terms, text) ==
    /\ terms # <<>>
    /\ \A k \in 1..Len(terms) : Len(terms[k]) >= 1 /\ OnlyInsideTokens(terms[k], text)

\* the keyword list in effect in a direct call of SectionFilter, <<>> when
\* there is none
SFKeywords(key) == IF SFOption(key) = None THEN <<>> ELSE Value(SFOption(key))

\* section k of the input is in the output
Kept(k) ==
    \E m \in 1..Len(SectionsOut) : SectionsOut[m].start_index = SectionsIn[k].start_index

\* no section up to section m has an inclusion keyword as a whole word
NoInclusionUpTo(m) ==
    \A k \in 1..m : NoWholeWord(SFKeywords("section_inc_list"), SectionsIn[k].text)

\* the whole-word rule for NoteFilter, SentenceFilter, WordMasker and the
\* inclusion keywords of SectionFilter: without a whole-word occurrence the
\* note is dropped, the sentence is not marked important and not listed,
\* the text is not changed, and no inclusion block is opened
WholeWordRule ==
    /\ (Returned("note_filter")
            /\ NoWholeWord(OptionInEffect("note_filter", "words_to_search"), NoteIn.text))
           => dropped = {<<1, 1>>}
    /\ Returned("sentence_filter") =>
           \A k \in 1..Len(NoteOut.sections[1].sentences) :
               NoWholeWord(OptionInEffect("sentence_filter", "words_to_search"),
                           NoteIn.sections[1].sentences[k].text)
                   => /\ ~NoteOut.sections[1].sentences[k].is_important
                      /\ \A j \in 1..Len(NoteOut.sections[1].important_indices) :
                             NoteOut.sections[1].important_indices[j] # k - 1
    /\ (Returned("word_masker")
            /\ NoWholeWord(OptionInEffect("word_masker", "words_to_mask"), NoteIn.text))
           => NoteOut.text = NoteIn.text
    /\ (Returned("section_filter") /\ ~FallsBack(VisitedOpenNotExcluded)) =>
           \A m \in 1..Len(SectionsIn) : NoInclusionUpTo(m) => ~Kept(m)

C14_WitnessNoteFilter ==
    /\ Returned("note_filter")
    /\ NoteIn.text = <<"a", "b">>
    /\ dropped = {<<1, 1>>}

\* ------------------------------------------------------------------------
\* Joiner
\* ------------------------------------------------------------------------

\* the sections from section k on that are important and list an important
\* sentence
RECURSIVE JoinedSections(_, _)
JoinedSections(sections, k) ==
    IF k > Len(sections) THEN <<>>
    ELSE (IF sections[k].is_important /\ sections[k].important_indices # <<>>
          THEN <<sections[k]>> ELSE <<>>) \o JoinedSections(sections, k + 1)

\* the texts of the important sentences of a section, in the order of
\* important_indices
ImportantTexts(section) ==
    [j \in 1..Len(section.important_indices) |->
        section.sentences[section.important_indices[j] + 1].text]

\* the input note with the expanded_indices of every section emptied
WithoutExpansion ==
    [NoteIn EXCEPT !.sections =
        [k \in 1..Len(NoteIn.sections) |-> [NoteIn.sections[k] EXCEPT !.expanded_indices = <<>>]]]

\* C15: after the Joiner, preprocessed_text is the section_delimiter-join,
\* over the important sections with important sentences, of the
\* sentence_delimiter-join of their important sentences; it is empty when
\* there is no such section; expanded_indices has no part in it.
C15_JoinsImportant ==
    Returned("joiner") =>
        LET selected == JoinedSections(NoteIn.sections, 1)
        IN  /\ NoteOut.preprocessed_text =
                   Some(Join([k \in 1..Len(selected) |->
                                 Join(ImportantTexts(selected[k]),
                                      OptionInEffect("joiner", "sentence_delimiter"))],
                             OptionInEffect("joiner", "section_delimiter")))
            /\ selected = <<>> => NoteOut.preprocessed_text = Some(<<>>)
            /\ NoteOut.preprocessed_text =
                   JoinerProcess(Value(components["joiner"].component), WithoutExpansion,
                                 override["joiner"]).preprocessed_text

\* two sections were joined, one of them with expanded sentences that are
\* not in the text
C15_Witness ==
    /\ Returned("joiner")
    /\ Len(JoinedSections(NoteIn.sections, 1)) = 2
    /\ NoteIn.sections[1].important_indices = <<1>>
    /\ NoteIn.sections[1].expanded_indices = <<0, 1, 2>>
    /\ NoteOut.preprocessed_text = Some(<<"b", ".", "|", "a", ".", " ", "c", ".">>)

\* ------------------------------------------------------------------------
\* BatchPipeline: the order of the returned patients
\* ------------------------------------------------------------------------

BatchReturned == ctor = "ok" /\ kind = "batch" /\ pc = "returned"

\* C16: BatchPipeline.process returns as many patients as it was given, the
\* i-th with the patient_id and the number of notes of the i-th given,
\* whatever the order in which the tasks of the pool ran.
C16_BatchOrderPreserved ==
    BatchReturned =>
        /\ Len(patients) = Len(input)
        /\ \A i \in 1..Len(input) :
               /\ patients[i].patient_id = input[i].patient_id
               /\ Len(patients[i].notes) = Len(input[i].notes)

\* a batch of two tasks returned and the second task ran before the first
\* had ended
C16_Witness ==
    /\ BatchReturned
    /\ Len(input) = ChunkSize + 1
    /\ \E j, k \in 1..Len(trace) :
           /\ j < k
           /\ trace[j].patient = ChunkSize + 1
           /\ trace[k].patient = 2
           /\ trace[j].component = "encoding_fixer"
           /\ trace[k].component = "encoding_fixer"

\* ------------------------------------------------------------------------
\* Parameter resolution
\* ------------------------------------------------------------------------

\* the component of the direct call
Self(name) == Value(components[name].component)

\* the value a parameter of the direct call is to resolve to: that of the
\* call when there is one, whatever it is, else that of the instance, None
\* when there is neither
Resolved(name, key) ==
    IF key \in DOMAIN override[name] THEN Some(override[name][key]) ELSE Self(name)[key]

\* the component of the direct call with every parameter resolved
ResolvedSelf(name) == [key \in DOMAIN Self(name) |-> Resolved(name, key)]

\* the result of process given the resolved parameters alone
ResolvedResult(name) == ComponentProcess(name, ResolvedSelf(name), NoteIn, <<>>)

\* C18: a stage works with the call-time value of a parameter when there is
\* one (a falsy one too), else with the instance value; it fails when a
\* required parameter has neither, and then leaves the note as it was.
C18_ParamResolution ==
    \A name \in DirectNames :
        (ctor = "ok" /\ kind = name /\ pc \in {"returned", "raised"}
             /\ Len(input) = 1 /\ Len(input[1].notes) = 1) =>
            /\ pc = "raised" <=> \E key \in RequiredParams(name) : Resolved(name, key) = None
            /\ pc = "raised" => NoteOut = NoteIn
            /\ pc = "returned" =>
                   /\ NoteOut = ResolvedResult(name).note
                   /\ (dropped # {}) = ResolvedResult(name).none

\* a call gave the falsy value fallback=False to an instance holding True
\* and it was used: the sections, none of them kept by the pass, were
\* dropped
C18_Witness ==
    /\ Returned("section_filter")
    /\ Self("section_filter").fallback = Some(TRUE)
    /\ override["section_filter"] = [fallback |-> FALSE]
    /\ NoteIn.sections # <<>>
    /\ NoteOut.sections = <<>>

\* a required parameter had no value and the call failed
C18_WitnessRaised ==
    /\ ctor = "ok" /\ kind = "word_masker" /\ pc = "raised"
    /\ Self("word_masker").words_to_mask = None
    /\ NoteIn.text = <<"a">>

\* ------------------------------------------------------------------------
\* Status values
\* ------------------------------------------------------------------------

\* the configuration of the pipeline gives a component a status that is
\* none of enabled, disabled, excluded
BadStatusInConfig ==
    \E name \in DOMAIN config.settings : config.settings[name].status \notin Statuses

\* the override map of the call does
BadStatusInOverride ==
    \E name \in DOMAIN override :
        "status" \in DOMAIN override[name] /\ override[name].status \notin Statuses

\* C19: a status other than enabled, disabled or excluded is rejected: no
\* pipeline is constructed from a configuration that has one and no call
\* runs with an override map that has one.
C19_BadStatusRejected ==
    /\ ctor = "ok" => ~BadStatusInConfig
    /\ pc \notin {"idle", "raised"} => ~BadStatusInOverride

\* a call given the status "off" for sentence_filter returned, and
\* sentence_filter, enabled in the configuration, did not run
C19_Witness ==
    /\ pc = "returned"
    /\ BadStatusInOverride
    /\ config.settings["sentence_filter"].status = "enabled"
    /\ \E k \in 1..Len(trace) : trace[k].component = "joiner"
    /\ \A k \in 1..Len(trace) : trace[k].component # "sentence_filter"

\* ------------------------------------------------------------------------
\* MLInference
\* ------------------------------------------------------------------------

\* the text of a note that the classifier is to see, empty when there is
\* none
SelectedText(note) ==
    IF OptionInEffect("ml_inference", "use_preped_text")
    THEN (IF note.preprocessed_text = None THEN <<>> ELSE Value(note.preprocessed_text))
    ELSE note.text

\* C20: MLInference gives a note the label and the score of the classifier
\* for the note's own selected text when that text is not empty, in process
\* and in process_batch_patients alike, and leaves a note with an empty
\* selected text as it was.
C20_PredictsOwnText ==
    Returned("ml_inference") =>
        /\ Len(patients) = Len(input)
        /\ \A i \in 1..Len(input) :
               /\ Len(patients[i].notes) = Len(input[i].notes)
               /\ \A n \in 1..Len(input[i].notes) :
                      patients[i].notes[n] =
                          IF SelectedText(input[i].notes[n]) # <<>>
                          THEN [input[i].notes[n] EXCEPT
                                   !.predicted_label =
                                       Some(Classify(SelectedText(input[i].notes[n])).label),
                                   !.predicted_score =
                                       Some(Classify(SelectedText(input[i].notes[n])).score)]
                          ELSE input[i].notes[n]

\* a batch of two patients was classified on the note texts: the first note
\* of the first patient, empty, kept its earlier prediction and the two
\* other notes got the results for their own texts
C20_Witness ==
    /\ Returned("ml_inference")
    /\ ~OptionInEffect("ml_inference", "use_preped_text")
    /\ Len(input) = 2
    /\ input[1].notes = <<NoteEmpty, NoteBoth>>
    /\ input[2].notes = <<NoteNoPrep>>
    /\ patients[1].notes[1].predicted_label = Some("OLD")
    /\ patients[1].notes[2].predicted_label = Some("LABEL_1")
    /\ patients[2].notes[1].predicted_label = Some("LABEL_0")

\* ------------------------------------------------------------------------
\* C17
\* ------------------------------------------------------------------------

\* a task of the pool of this call has raised
WorkerRaised == kind = "batch" /\ \E c \in DOMAIN pool.raised : pool.raised[c]

\* the entries of the trace t that belong to the patients of chunk c
ChunkTrace(t, c) ==
    SelectSeq(t, LAMBDA e : e.patient \in SeqToSet(ChunkItems(c, Len(pool.serialized))))

\* C17: once a task has raised inside a worker in Phase A or Phase C, the
\* call can only end by raising: no later phase starts and nothing is
\* returned (the call ends with no list of patients), and no component
\* runs again on a patient of the chunk that raised.
C17_WorkerErrorFailsCall ==
    [][WorkerRaised =>
          /\ \/ pc' \in {pc, "raised"}
             \/ pc = "raised" /\ pc' = "idle"
          /\ pc' = "raised" => patients' = <<>>
          /\ pc' # "idle" =>
                 \A c \in DOMAIN pool.raised :
                     pool.raised[c] => ChunkTrace(trace', c) = ChunkTrace(trace, c)]_vars

\* a call of several patients has ended by the error of a task of Phase C,
\* the task of another patient of the chunk having ended well before
C17_Witness ==
    /\ kind = "batch"
    /\ pc = "raised"
    /\ Len(input) > 1
    /\ pool.todo # <<>>
    /\ Head(pool.todo) \in SeqToSet(Phase3Components)
    /\ \E c \in DOMAIN pool.raised : pool.raised[c] /\ pool.done[c] > 0
    /\ patients = <<>>

\* ------------------------------------------------------------------------
\* A pipeline that holds an MLInference
\* ------------------------------------------------------------------------

\* the configuration with every component excluded
AllExcluded == ConfigWith(ComponentNames, [name \in NameSet |-> "excluded"])

MLConfigs == {AllExcluded, ConfigWith(ComponentNames, [ml_inference |-> "excluded"])}

\* __init__ cannot build the MLInference (_init_ml_inference passes keywords
\* that MLInference.__init__ does not take), so the pipeline is constructed
\* with ml_inference excluded and an instance built as the component tests
\* build it, MLInference(models=..., use_preped_text=...), is put in
\* pipeline.components under status "enabled"
ConstructWithML(k, cfg, use_preped_text) ==
    /\ ctor = "new"
    /\ ctor' = "ok"
    /\ kind' = k
    /\ config' = cfg
    /\ components' =
           [InitComponents(cfg) EXCEPT
               !["ml_inference"] = [component |-> Some([use_preped_text |-> Some(use_preped_text)]),
                                    status |-> Some("enabled")]]
    /\ UNCHANGED <<pc, callVars, cacheVars, sharingVars, frame>>

\* " i m.  i d. ": EncodingFixer strips it, PatternReplacer puts "|" for the
\* two spaces, WordMasker masks "m", and SectionSplitter makes two sections
TextE == <<" ", "i", " ", "m", ".", " ", " ", "i", " ", "d", ".", " ">>

MLPatients ==
    {Patient("q", <<NoteNoPrep>>), Patient("r", <<NoteEmpty, NoteBoth>>),
     Patient("s", <<NotePrepEmpty, NoteNoPrep>>), Patient("t", <<Note(TextA)>>),
     Patient("u", <<Note(TextE)>>)}

MLOverrides ==
    {<<>>, [ml_inference |-> [use_preped_text |-> FALSE]],
     [ml_inference |-> [use_preped_text |-> TRUE]],
     [ml_inference |-> [status |-> "disabled"]]}

NextML ==
    \/ \E k \in {"single", "batch"}, cfg \in MLConfigs, use_preped_text \in BOOLEAN :
           ConstructWithML(k, cfg, use_preped_text)
    \/ \E p \in MLPatients, ov \in MLOverrides : SingleProcessBegin(p, ov)
    \/ SingleStep
    \/ SingleReturn
    \/ \E ps \in SeqsUpTo(MLPatients, MaxPatients) \cup {LargeBatch}, ov \in MLOverrides :
           BatchProcessBegin(ps, ov)
    \/ \E c \in 1..NumChunks(ChunkSize + 1) : PoolWorker(c)
    \/ PoolJoin
    \/ BatchSegment
    \/ BatchInfer
    \/ Release

SpecML == Init /\ [][NextML]_vars

\* the MLInference of the pipeline
MLSelf == Value(components["ml_inference"].component)

\* the call ran ml_inference
MLRan ==
    /\ "ml_inference" \in DOMAIN preprocessed_params
    /\ preprocessed_params["ml_inference"].should_process

\* the note as it was before the classifier ran on it: the stages before
\* ml_inference leave the prediction of the note as it was passed in
BeforeML(i, n) ==
    [patients[i].notes[n] EXCEPT !.predicted_label = input[i].notes[n].predicted_label,
                                 !.predicted_score = input[i].notes[n].predicted_score]

\* C21: when BatchPipeline.process has run the classifier, every note
\* that no component dropped holds the prediction that MLInference.process
\* gives it under the call's ml_inference overrides (SinglePipeline passes
\* them to process): the text
\* classified is the one the override of use_preped_text selects when the
\* call gives one, else the one the instance selects.
C21_BatchAppliesMLOverrides ==
    (ctor = "ok" /\ kind = "batch" /\ pc = "returned" /\ MLRan) =>
        \A i \in 1..Len(patients) : \A n \in 1..Len(patients[i].notes) :
            <<i, n>> \notin dropped =>
                patients[i].notes[n] =
                        MLInferenceProcess(MLSelf, BeforeML(i, n),
                                       preprocessed_params["ml_inference"].params)

\* the same of SinglePipeline.process
C21_SingleAppliesMLOverrides ==
    (ctor = "ok" /\ kind = "single" /\ pc = "returned" /\ MLRan) =>
        \A n \in 1..Len(patients[1].notes) :
            <<1, n>> \notin dropped =>
                patients[1].notes[n] =
                    MLInferenceProcess(MLSelf, BeforeML(1, n),
                                       preprocessed_params["ml_inference"].params)

\* a batch call returned whose override of use_preped_text differs from the
\* option of the instance, with a note whose two texts differ
C21_Witness ==
    /\ ctor = "ok" /\ kind = "batch" /\ pc = "returned" /\ MLRan
    /\ "use_preped_text" \in DOMAIN preprocessed_params["ml_inference"].params
    /\ preprocessed_params["ml_inference"].params["use_preped_text"] # Value(MLSelf.use_preped_text)
    /\ \E i \in 1..Len(patients) : \E n \in 1..Len(patients[i].notes) :
           /\ patients[i].notes[n].preprocessed_text # None
           /\ patients[i].notes[n].preprocessed_text # Some(patients[i].notes[n].text)

\* ------------------------------------------------------------------------
\* C22
\* ------------------------------------------------------------------------

\* a call of SinglePipeline.process that runs the DuplicateChecker is under
\* way or has ended
SingleChecks ==
    /\ ctor = "ok" /\ kind = "single" /\ pc \in {"single", "returned", "raised"}
    /\ "duplicate_checker" \in DOMAIN preprocessed_params
    /\ preprocessed_params["duplicate_checker"].should_process

DCSelf == Value(components["duplicate_checker"].component)

\* the value of num_perm or sim_threshold in effect in the call
DCEffective(key) ==
    Value(GetEffectiveParam(DCSelf[key],
                            Provided(preprocessed_params["duplicate_checker"].params, key)))

\* C22: in a SinglePipeline.process call that runs the DuplicateChecker the
\* LSH index has the num_perm and the sim_threshold in effect in the call,
\* overridden or not, and the signatures queried against it or inserted in
\* it have the number of permutations of the index.
C22_OverriddenLshConsistent ==
    SingleChecks =>
        /\ DCSelf.lsh.num_perm = DCEffective("num_perm")
        /\ DCSelf.lsh.threshold = DCEffective("sim_threshold")
        /\ DCSelf.lsh.queried # {} => MinHashNumPerm(DCSelf) = DCSelf.lsh.num_perm

\* the part of C22 that the code keeps: the index is rebuilt with the
\* values in effect
C22_LshRebuilt ==
    SingleChecks =>
        /\ DCSelf.lsh.num_perm = DCEffective("num_perm")
        /\ DCSelf.lsh.threshold = DCEffective("sim_threshold")

\* a call that overrides num_perm has queried the index
C22_Witness ==
    /\ SingleChecks
    /\ "num_perm" \in DOMAIN preprocessed_params["duplicate_checker"].params
    /\ DCSelf.lsh.num_perm = preprocessed_params["duplicate_checker"].params["num_perm"]
    /\ DCSelf.lsh.queried # {}

\* ------------------------------------------------------------------------
\* MLInference._cache, _lock and _get_or_load under threads
\* ------------------------------------------------------------------------

MaxLoads == 2

\* the model lists of the callers: MLInference(models=...) calls
\* _get_or_load for every name of models in their order, _select_pipe
\* calls it for one name
ModelLists == {<<"default">>, <<"aux">>, <<"default", "aux">>, <<"aux", "default">>}

\* the name the thread is loading
Current(t) == Head(thread[t].todo)

\* _get_or_load returns pipe to thread t: the loop of __init__ goes on with
\* the next name, or the caller has its pipeline
Returns(t, pipe) ==
    /\ obtained' = obtained \cup {[key |-> CacheKey(Current(t)), pipe |-> pipe]}
    /\ thread' = [thread EXCEPT ![t] =
                     [pc |-> IF Len(thread[t].todo) > 1 THEN "check" ELSE "idle",
                      todo |-> Tail(thread[t].todo), pipe |-> None]]

\* a thread constructs an MLInference or calls _select_pipe
GetOrLoadBegin(t, model_names) ==
    /\ thread[t].pc = "idle"
    /\ thread' = [thread EXCEPT ![t] = [pc |-> "check", todo |-> model_names, pipe |-> None]]
    /\ UNCHANGED <<frame, sharingVars, pipelineVars, cache, lock, loads, obtained>>

\* if cache_key in MLInference._cache: return MLInference._cache[cache_key]
\* (before the lock is taken)
CheckCache(t) ==
    /\ thread[t].pc = "check"
    /\ IF CacheKey(Current(t)) \in DOMAIN cache
       THEN Returns(t, cache[CacheKey(Current(t))])
       ELSE thread' = [thread EXCEPT ![t].pc = "wait"] /\ obtained' = obtained
    /\ UNCHANGED <<frame, sharingVars, pipelineVars, cache, lock, loads>>

\* with MLInference._lock: the thread enters when no thread holds the lock
AcquireLock(t) ==
    /\ thread[t].pc = "wait"
    /\ lock = None
    /\ lock' = Some(t)
    /\ thread' = [thread EXCEPT ![t].pc = "locked"]
    /\ UNCHANGED <<frame, sharingVars, pipelineVars, cache, loads, obtained>>

\* mutation of CheckLocked: the cache is not looked at again under the lock
CheckLockedNever(t) ==
    /\ thread[t].pc = "locked"
    /\ thread' = [thread EXCEPT ![t].pc = "load"]
    /\ UNCHANGED <<frame, sharingVars, pipelineVars, cache, lock, loads, obtained>>

\* the second `if cache_key in MLInference._cache`, under the lock; the
\* return leaves the with block and releases the lock
CheckLocked(t) ==
    /\ thread[t].pc = "locked"
    /\ IF CacheKey(Current(t)) \in DOMAIN cache
       THEN /\ Returns(t, cache[CacheKey(Current(t))])
            /\ lock' = None
       ELSE /\ thread' = [thread EXCEPT ![t].pc = "load"]
            /\ UNCHANGED <<lock, obtained>>
    /\ UNCHANGED <<frame, sharingVars, pipelineVars, cache, loads>>

\* from_pretrained(...) and pipeline(...): a new pipeline object, named by
\* its key and by how many were built for the key
LoadModel(t) ==
    /\ thread[t].pc = "load"
    /\ loads[Current(t)] < MaxLoads
    /\ loads' = [loads EXCEPT ![Current(t)] = @ + 1]
    /\ thread' = [thread EXCEPT ![t].pc = "insert",
                                ![t].pipe = Some(<<CacheKey(Current(t)), loads[Current(t)] + 1>>)]
    /\ UNCHANGED <<frame, sharingVars, pipelineVars, cache, lock, obtained>>

\* MLInference._cache[cache_key] = pipe
InsertPipe(t) ==
    /\ thread[t].pc = "insert"
    /\ cache' = [key \in DOMAIN cache \cup {CacheKey(Current(t))} |->
                    IF key = CacheKey(Current(t)) THEN Value(thread[t].pipe) ELSE cache[key]]
    /\ thread' = [thread EXCEPT ![t].pc = "meta"]
    /\ UNCHANGED <<frame, sharingVars, pipelineVars, lock, loads, obtained>>

\* _loaded_meta[model_name] = {...}; return pipe: the lock is released
ReturnLoaded(t) ==
    /\ thread[t].pc = "meta"
    /\ Returns(t, Value(thread[t].pipe))
    /\ lock' = None
    /\ UNCHANGED <<frame, sharingVars, pipelineVars, cache, loads>>

NextCache ==
    \/ \E t \in Threads, model_names \in ModelLists : GetOrLoadBegin(t, model_names)
    \/ \E t \in Threads : CheckCache(t)
    \/ \E t \in Threads : AcquireLock(t)
    \/ \E t \in Threads : CheckLocked(t)
    \/ \E t \in Threads : LoadModel(t)
    \/ \E t \in Threads : InsertPipe(t)
    \/ \E t \in Threads : ReturnLoaded(t)

SpecCache == Init /\ [][NextCache]_vars

\* the model of every key was loaded at most once and the callers of a key
\* all obtained the object the cache holds for it
LoadedOnce ==
    /\ \A model_name \in ModelNames : loads[model_name] <= 1
    /\ \A o \in obtained : o.key \in DOMAIN cache /\ cache[o.key] = o.pipe

\* a step leaves every entry of the cache in place
EntriesKept == \A key \in DOMAIN cache : key \in DOMAIN cache' /\ cache'[key] = cache[key]

\* C23: whatever the interleaving of the threads that construct MLInference
\* or call _get_or_load, the model of a cache key is loaded at most once,
\* every caller of the key obtains the same pipeline object, and an entry of
\* the cache is never replaced or removed.
C23_LoadedOnceEntriesKept == []LoadedOnce /\ [][EntriesKept]_vars

\* a thread that waited for the lock while another thread loaded the model
\* of its key holds the lock and finds the entry in the cache, the loader
\* having obtained its pipeline
C23_Witness ==
    /\ loads["default"] = 1
    /\ \E o \in obtained : o.key = CacheKey("default")
    /\ \E t \in Threads :
           /\ thread[t].pc = "locked"
           /\ Current(t) = "default"
           /\ CacheKey("default") \in DOMAIN cache

\* ------------------------------------------------------------------------
\* C24
\* ------------------------------------------------------------------------

CoordinatorStages == {"sentence_segmenter", "ml_inference"}

\* the phase of a stage: 1 for stages 1-6, 2 for the segmenter, 3 for
\* stages 8-11, 4 for the classifier
PhaseOf(name) ==
    IF name \in SeqToSet(Phase1Components) THEN 1
    ELSE IF name = "sentence_segmenter" THEN 2
    ELSE IF name \in SeqToSet(Phase3Components) THEN 3
    ELSE 4

\* the entries of the trace for note n of patient i
NoteTrace(i, n) == SelectSeq(trace, LAMBDA e : e.patient = i /\ e.note = n)

\* the stages of the phase list that ran on note n of patient i
RanOn(i, n, component_names) ==
    SelectSeq([k \in 1..Len(NoteTrace(i, n)) |-> NoteTrace(i, n)[k].component],
              LAMBDA name : name \in SeqToSet(component_names))

\* the worker phase of the list is complete for every patient: each note
\* went through the stages of the phase that the call runs, those after a
\* stage that dropped the note left out
PhaseComplete(component_names) ==
    \A i \in 1..Len(input) : \A n \in 1..Len(input[i].notes) :
        LET ran == RanOn(i, n, component_names)
            all == ComponentsToProcess(component_names, preprocessed_params)
        IN  \/ ran = all
            \/ /\ <<i, n>> \in dropped
               /\ ran # <<>>
               /\ ran = SubSeq(all, 1, Len(ran))
               /\ ran[Len(ran)] = "note_filter"

\* C24: in a BatchPipeline.process call the segmenter and the classifier
\* run in the coordinator, at most once each for a note, and behind
\* barriers: no stage of an earlier phase runs on any patient after a stage
\* of a later phase has run on some patient, the segmenter step is taken
\* only when Phase A is complete for every patient, Phase C starts after
\* it, the classifier step is taken only when Phase C is complete for every
\* patient, and neither the segmenter nor the classifier is in the list of
\* components sent to a worker.
C24_PhaseBarriers ==
    (ctor = "ok" /\ kind = "batch" /\ pc # "idle" /\ pc # "raised") =>
        /\ \A j, k \in 1..Len(trace) :
               j < k => PhaseOf(trace[j].component) <= PhaseOf(trace[k].component)
        /\ \A i \in 1..Len(input) : \A n \in 1..Len(input[i].notes) :
               \A name \in CoordinatorStages :
                   Len(SelectSeq(NoteTrace(i, n), LAMBDA e : e.component = name)) <= 1
        /\ pc \in {"segment", "phase3", "infer", "returned"} => PhaseComplete(Phase1Components)
        /\ pc \in {"infer", "returned"} => PhaseComplete(Phase3Components)
        /\ pc = "phase1" => \A e \in SeqToSet(trace) : PhaseOf(e.component) = 1
        /\ SeqToSet(pool.todo) \cap CoordinatorStages = {}
        /\ \A c \in DOMAIN pool.comps : DOMAIN pool.comps[c] \cap CoordinatorStages = {}

\* a batch of two chunks went through the four phases: workers ran stages
\* of Phase A and of Phase C, the segmenter and the classifier ran
C24_Witness ==
    /\ ctor = "ok" /\ kind = "batch" /\ pc = "returned"
    /\ Len(input) = ChunkSize + 1
    /\ \A phase \in 1..4 : \E e \in SeqToSet(trace) : PhaseOf(e.component) = phase

\* ------------------------------------------------------------------------
\* C25
\* ------------------------------------------------------------------------

\* the notes of the call are as the stages that ran left them
NotesSettled ==
    /\ ctor = "ok"
    /\ \/ kind = "single" /\ pc \in {"single", "returned"}
       \/ kind = "batch" /\ pc \in {"infer", "returned"}

StrictlyAscending(indices) ==
    \A j, k \in 1..Len(indices) : j < k => indices[j] < indices[k]

\* the indices (from 0) of the sentences of the section that match a search
\* term and are not marked duplicate
MatchingNotDuplicate(section) ==
    {k - 1 : k \in {j \in 1..Len(section.sentences) :
                       /\ ~section.sentences[j].is_duplicate
                       /\ WholeWordSearch(EffectiveSetting("sentence_filter", "words_to_search"),
                                          section.sentences[j].text)}}

\* the texts of the sentences of the section that are not marked duplicate
\* and match a search term
KeptTexts(section) ==
    SelectSeq([k \in 1..Len(section.sentences) |-> section.sentences[k]],
              LAMBDA sentence :
                  /\ ~sentence.is_duplicate
                  /\ WholeWordSearch(EffectiveSetting("sentence_filter", "words_to_search"),
                                     sentence.text))

\* the text joined from the sentences that are not marked duplicate
JoinedWithoutDuplicates(note) ==
    LET kept == SelectSeq(note.sections,
                          LAMBDA section : section.is_important /\ KeptTexts(section) # <<>>)
    IN  Join([k \in 1..Len(kept) |->
                 Join([j \in 1..Len(KeptTexts(kept[k])) |-> KeptTexts(kept[k])[j].text],
                      EffectiveSetting("joiner", "sentence_delimiter"))],
             EffectiveSetting("joiner", "section_delimiter"))

\* C25: once SentenceFilter has run on a note, important_indices of each of
\* its sections is strictly ascending and holds exactly the indices of the
\* sentences that match a search term and are not marked duplicate; when
\* DuplicateChecker ran on the note too, important_indices and
\* duplicate_indices are disjoint, and the preprocessed text the Joiner
\* builds has no sentence marked duplicate in it.
C25_ImportantNotDuplicate ==
    NotesSettled =>
        \A i \in 1..Len(patients) : \A n \in 1..Len(patients[i].notes) :
            "sentence_filter" \in StagesRunOn(i, n) =>
                /\ \A s \in 1..Len(patients[i].notes[n].sections) :
                       LET section == patients[i].notes[n].sections[s]
                       IN  /\ StrictlyAscending(section.important_indices)
                           /\ SeqToSet(section.important_indices) = MatchingNotDuplicate(section)
                           /\ "duplicate_checker" \in StagesRunOn(i, n) =>
                                  SeqToSet(section.important_indices)
                                      \cap SeqToSet(section.duplicate_indices) = {}
                /\ {"duplicate_checker", "joiner"} \subseteq StagesRunOn(i, n) =>
                       patients[i].notes[n].preprocessed_text =
                           Some(JoinedWithoutDuplicates(patients[i].notes[n]))

\* the three stages ran on a note with a sentence that matches a search term
\* and is marked duplicate, and with an important sentence
C25_Witness ==
    /\ NotesSettled
    /\ \E i \in 1..Len(patients) : \E n \in 1..Len(patients[i].notes) :
           /\ {"duplicate_checker", "sentence_filter", "joiner"} \subseteq StagesRunOn(i, n)
           /\ \E s \in 1..Len(patients[i].notes[n].sections) :
                  LET section == patients[i].notes[n].sections[s]
                  IN  /\ section.duplicate_indices # <<>>
                      /\ \E j \in 1..Len(section.sentences) :
                             /\ section.sentences[j].is_duplicate
                             /\ WholeWordSearch(
                                    EffectiveSetting("sentence_filter", "words_to_search"),
                                    section.sentences[j].text)
           /\ \E s \in 1..Len(patients[i].notes[n].sections) :
                  patients[i].notes[n].sections[s].important_indices # <<>>

\* ------------------------------------------------------------------------
\* SentenceExpander.process, statement by statement
\* ------------------------------------------------------------------------

MaxSectionSentences == 3
MaxSentenceLen == 1

\* a section whose sentences have the given text lengths, with the given
\* important_indices
SectionOf(lengths, important_indices) ==
    [Section(<<"a">>, 0, 1) EXCEPT
        !.sentences = [k \in 1..Len(lengths) |->
                          Sentence(Repeat(<<"a">>, lengths[k]), 0, lengths[k])],
        !.important_indices = important_indices]

\* the lists of in-range indices: the ascending ones, as SentenceFilter
\* leaves them, and two that are not
IndexLists(n) ==
    {SortedSeq(S) : S \in SUBSET (0..(n - 1))}
        \cup (IF n >= 2 THEN {<<1, 0>>, <<0, 0>>} ELSE {})

ExpanderSections ==
    {SectionOf(lengths, indices) :
        lengths \in SeqsUpTo(0..MaxSentenceLen, MaxSectionSentences),
        indices \in UNION {IndexLists(n) : n \in 0..MaxSectionSentences}}

\* five sentences of text lengths 6, 22, 17, 18, 15, the first and the fourth
\* important: two windows that meet, as in
\* test_two_short_sentences_in_one_section_with_expansion_no_overlap
ExampleSection == SectionOf(<<6, 22, 17, 18, 15>>, <<0, 3>>)

ExpanderNotes ==
    {[Note(<<"a">>) EXCEPT !.sections = <<section>>] :
        section \in {x \in ExpanderSections :
                        \A k \in 1..Len(x.important_indices) :
                            x.important_indices[k] < Len(x.sentences)}}
    \cup {[Note(<<"a">>) EXCEPT !.sections = <<ExampleSection>>],
          [Note(<<"a">>) EXCEPT !.sections = <<SectionOf(<<1, 2>>, <<0>>), SectionOf(<<2, 0, 1>>, <<0>>)>>],
          [Note(<<"a">>) EXCEPT !.sections = <<SectionOf(<<1>>, <<0>>), SectionOf(<<2, 2>>, <<>>)>>]}

ExpanderThresholds == {1, 2, 50}

\* the section the loops are at, and its important index
FrameSection == patients[1].notes[1].sections[frame.section]
FrameIdx == FrameSection.important_indices[frame.k]

\* sentence_expander.process(note, **params) up to the loop over the sections
ExpandBegin(note, params) ==
    /\ ctor = "ok" /\ kind = "sentence_expander" /\ pc = "idle"
    /\ input' = <<Patient("p", <<note>>)>>
    /\ patients' = <<Patient("p", <<note>>)>>
    /\ override' = [sentence_expander |-> params]
    /\ trace' = <<[patient |-> 1, note |-> 1, component |-> "sentence_expander"]>>
    /\ pc' = "expanding"
    /\ frame' = [NoFrame EXCEPT
                    !.at = "for", !.section = 1, !.k = 1,
                    !.length_threshold =
                        Value(GetEffectiveParam(
                                  Value(components["sentence_expander"].component).length_threshold,
                                  Provided(params, "length_threshold")))]
    /\ UNCHANGED <<cacheVars, sharingVars, ctor, kind, config, components, preprocessed_params, note_idx,
                   comp_idx, pool, dropped, prior_nonempty>>

\* the loop over note.sections has ended: return note
ExpandReturn ==
    /\ pc = "expanding" /\ frame.at = "for"
    /\ frame.section > Len(patients[1].notes[1].sections)
    /\ pc' = "returned"
    /\ frame' = NoFrame
    /\ UNCHANGED <<cacheVars, sharingVars, ctor, kind, config, components, callVars>>

\* the loop over important_indices has ended: return sorted(expanded_indices)
\* and section.expanded_indices = expanded_indices
ExpandSectionEnd ==
    /\ pc = "expanding" /\ frame.at = "for"
    /\ frame.section <= Len(patients[1].notes[1].sections)
    /\ frame.k > Len(FrameSection.important_indices)
    /\ patients' = [patients EXCEPT ![1].notes[1].sections[frame.section].expanded_indices =
                       SortedSeq(frame.expanded_indices)]
    /\ frame' = [frame EXCEPT !.section = @ + 1, !.k = 1, !.expanded_indices = {}]
    /\ UNCHANGED <<cacheVars, sharingVars, ctor, kind, config, components, pc, override, preprocessed_params,
                   note_idx, comp_idx, pool, input, trace, dropped, prior_nonempty>>

\* mutation of ExpandLong: the index of a long sentence is not added
ExpandLongSkipped ==
    /\ pc = "expanding" /\ frame.at = "for"
    /\ frame.section <= Len(patients[1].notes[1].sections)
    /\ frame.k <= Len(FrameSection.important_indices)
    /\ Len(FrameSection.sentences[FrameIdx + 1].text) >= frame.length_threshold
    /\ frame' = [frame EXCEPT !.k = @ + 1]
    /\ UNCHANGED <<cacheVars, sharingVars, ctor, kind, config, components, pc, callVars>>

\* if len(sentences[idx].text) >= length_threshold: expanded_indices.add(idx)
ExpandLong ==
    /\ pc = "expanding" /\ frame.at = "for"
    /\ frame.section <= Len(patients[1].notes[1].sections)
    /\ frame.k <= Len(FrameSection.important_indices)
    /\ Len(FrameSection.sentences[FrameIdx + 1].text) >= frame.length_threshold
    /\ frame' = [frame EXCEPT !.expanded_indices = @ \cup {FrameIdx}, !.k = @ + 1]
    /\ UNCHANGED <<cacheVars, sharingVars, ctor, kind, config, components, pc, callVars>>

\* else: range_start, range_end = idx, idx + 1 and combined_len
ExpandShort ==
    /\ pc = "expanding" /\ frame.at = "for"
    /\ frame.section <= Len(patients[1].notes[1].sections)
    /\ frame.k <= Len(FrameSection.important_indices)
    /\ Len(FrameSection.sentences[FrameIdx + 1].text) < frame.length_threshold
    /\ frame' = [frame EXCEPT !.at = "while", !.range_start = FrameIdx,
                              !.range_end = FrameIdx + 1,
                              !.combined_len = Len(FrameSection.sentences[FrameIdx + 1].text)]
    /\ UNCHANGED <<cacheVars, sharingVars, ctor, kind, config, components, pc, callVars>>

\* the frame after the while loop was left with the window [start, end):
\* expanded_indices.update(range(range_start, range_end))
AfterWhile(start, end) ==
    [frame EXCEPT !.at = "for", !.k = @ + 1,
                  !.expanded_indices = @ \cup (start..(end - 1)),
                  !.range_start = 0, !.range_end = 0, !.combined_len = 0]

\* the frame after a round of the while loop that reached the values given;
\* the round ends with the test of `break`
RoundDone(start, end, len) ==
    IF start = 0 /\ end = Len(FrameSection.sentences)
    THEN AfterWhile(start, end)
    ELSE [frame EXCEPT !.range_start = start, !.range_end = end, !.combined_len = len]

\* the same without the test of `break`
RoundDoneNoBreak(start, end, len) ==
    [frame EXCEPT !.range_start = start, !.range_end = end, !.combined_len = len]

\* the second half of a round, the first having reached start and len
GrowRight(start, len) ==
    IF len < frame.length_threshold /\ frame.range_end < Len(FrameSection.sentences)
    THEN [range_start |-> start, range_end |-> frame.range_end + 1,
          combined_len |-> len + Len(FrameSection.sentences[frame.range_end + 1].text)]
    ELSE [range_start |-> start, range_end |-> frame.range_end, combined_len |-> len]

\* the first half of a round
GrowLeft ==
    IF frame.range_start > 0
    THEN [range_start |-> frame.range_start - 1,
          combined_len |-> frame.combined_len
                               + Len(FrameSection.sentences[frame.range_start].text)]
    ELSE [range_start |-> frame.range_start, combined_len |-> frame.combined_len]

\* mutation of WhileRound: a round does not end with the test of `break`
WhileRoundNoBreak ==
    /\ pc = "expanding" /\ frame.at = "while"
    /\ frame.combined_len < frame.length_threshold
    /\ LET r == GrowRight(GrowLeft.range_start, GrowLeft.combined_len)
       IN  frame' = RoundDoneNoBreak(r.range_start, r.range_end, r.combined_len)
    /\ UNCHANGED <<cacheVars, sharingVars, ctor, kind, config, components, pc, callVars>>

\* mutation of WhileRound: a round adds the next sentence only
WhileRoundRightOnly ==
    /\ pc = "expanding" /\ frame.at = "while"
    /\ frame.combined_len < frame.length_threshold
    /\ LET r == GrowRight(frame.range_start, frame.combined_len)
       IN  frame' = RoundDone(r.range_start, r.range_end, r.combined_len)
    /\ UNCHANGED <<cacheVars, sharingVars, ctor, kind, config, components, pc, callVars>>

\* one round of `while combined_len < length_threshold`
WhileRound ==
    /\ pc = "expanding" /\ frame.at = "while"
    /\ frame.combined_len < frame.length_threshold
    /\ LET r == GrowRight(GrowLeft.range_start, GrowLeft.combined_len)
       IN  frame' = RoundDone(r.range_start, r.range_end, r.combined_len)
    /\ UNCHANGED <<cacheVars, sharingVars, ctor, kind, config, components, pc, callVars>>

\* the test of the while loop fails
WhileEnd ==
    /\ pc = "expanding" /\ frame.at = "while"
    /\ frame.combined_len >= frame.length_threshold
    /\ frame' = AfterWhile(frame.range_start, frame.range_end)
    /\ UNCHANGED <<cacheVars, sharingVars, ctor, kind, config, components, pc, callVars>>

ExpandStep ==
    \/ ExpandReturn
    \/ ExpandSectionEnd
    \/ ExpandLong
    \/ ExpandShort
    \/ WhileRound
    \/ WhileEnd

NextExpander ==
    \/ \E length_threshold \in ExpanderThresholds :
           ComponentInit("sentence_expander", [length_threshold |-> Some(length_threshold)])
    \/ \E note \in ExpanderNotes, params \in {<<>>, [length_threshold |-> 3]} :
           ExpandBegin(note, params)
    \/ ExpandReturn
    \/ ExpandSectionEnd
    \/ ExpandLong
    \/ ExpandShort
    \/ WhileRound
    \/ WhileEnd
    \/ Release

SpecExpander == Init /\ [][NextExpander]_vars

\* a step of a running call is taken when one is possible
SpecExpanderFair == SpecExpander /\ WF_vars(ExpandStep)

\* ------------------------------------------------------------------------
\* C26, C27, C28
\* ------------------------------------------------------------------------

ExpanderReturned == ctor = "ok" /\ kind = "sentence_expander" /\ pc = "returned"

\* the length_threshold in effect in the call
ExpanderThreshold ==
    IF "length_threshold" \in DOMAIN override["sentence_expander"]
    THEN override["sentence_expander"]["length_threshold"]
    ELSE Value(Value(components["sentence_expander"].component).length_threshold)

\* len(sentences[a].text) + ... + len(sentences[b - 1].text), indices from 0
RECURSIVE SumLen(_, _, _)
SumLen(sentences, a, b) ==
    IF a >= b THEN 0 ELSE Len(sentences[a + 1].text) + SumLen(sentences, a + 1, b)

\* C26: for every section and every in-range important_indices, the
\* expanded_indices that SentenceExpander leaves is strictly ascending, lies
\* in [0, len(section.sentences)), holds every index of important_indices,
\* long or short, and is what the sentences and the important_indices of
\* that section alone give; while a window grows it stays inside the
\* section.
C26_ExpandedContainsImportant ==
    /\ (ctor = "ok" /\ kind = "sentence_expander" /\ pc = "expanding" /\ frame.at = "while") =>
           /\ 0 <= frame.range_start
           /\ frame.range_start < frame.range_end
           /\ frame.range_end <= Len(FrameSection.sentences)
    /\ ExpanderReturned =>
           \A s \in 1..Len(patients[1].notes[1].sections) :
               LET section == patients[1].notes[1].sections[s]
               IN  /\ StrictlyAscending(section.expanded_indices)
                   /\ SeqToSet(section.expanded_indices) \subseteq 0..(Len(section.sentences) - 1)
                   /\ SeqToSet(section.important_indices)
                          \subseteq SeqToSet(section.expanded_indices)
                   /\ section.expanded_indices =
                          ExpandSectionSentences(input[1].notes[1].sections[s].sentences,
                                                 input[1].notes[1].sections[s].important_indices,
                                                 ExpanderThreshold)

\* a note of two sections returned, one with a long important sentence and
\* one with a short one that took a neighbour of its own section
C26_Witness ==
    /\ ExpanderReturned
    /\ Len(patients[1].notes[1].sections) = 2
    /\ \E s, u \in 1..2 :
           LET long == patients[1].notes[1].sections[s]
               short == patients[1].notes[1].sections[u]
           IN  /\ s # u
               /\ long.important_indices # <<>>
               /\ long.expanded_indices = long.important_indices
               /\ short.important_indices # <<>>
               /\ Len(short.expanded_indices) > Len(short.important_indices)

\* the window of the running while loop and the sentence it grows around
GrowsLeft == FrameIdx - frame.range_start
GrowsRight == frame.range_end - 1 - FrameIdx

\* the window [a, b) is one the loop can end with for the short sentence i
FinalWindow(sentences, i, a, b, length_threshold) ==
    /\ 0 <= a /\ a <= i /\ i < b /\ b <= Len(sentences)
    /\ \/ SumLen(sentences, a, b) >= length_threshold
       \/ a = 0 /\ b = Len(sentences)
    /\ b - a > 1 =>
           \/ SumLen(sentences, a + 1, b) < length_threshold
           \/ SumLen(sentences, a, b - 1) < length_threshold

\* C27: the window of a short important sentence i is contiguous and holds
\* i; a round adds the sentence on the left if there is one and then, the
\* summed length still being short, the sentence on the right if there is
\* one, so that the window has as many sentences on either side of i as the
\* section allows, the left side one ahead at most; the loop ends as soon as
\* the summed length reaches the threshold or the window is the section.
\* expanded_indices is the ascending union of the windows and of the long
\* important indices: lengths [6,22,17,18,15] with important [0,3] and
\* threshold 50 give [0,1,2,3,4].
C27_WindowGrowth ==
    /\ (ctor = "ok" /\ kind = "sentence_expander" /\ pc = "expanding" /\ frame.at = "while") =>
           /\ frame.range_start <= FrameIdx /\ FrameIdx < frame.range_end
           /\ frame.combined_len =
                  SumLen(FrameSection.sentences, frame.range_start, frame.range_end)
           /\ frame.range_start > 0 => GrowsLeft >= GrowsRight
           /\ frame.range_end < Len(FrameSection.sentences) => GrowsRight >= GrowsLeft - 1
           /\ (/\ frame.range_end < Len(FrameSection.sentences)
               /\ frame.combined_len < frame.length_threshold) => GrowsRight >= GrowsLeft
           /\ ~(frame.range_start = 0 /\ frame.range_end = Len(FrameSection.sentences))
                  \/ frame.range_end - frame.range_start = 1
           /\ frame.combined_len >= frame.length_threshold =>
                  FinalWindow(FrameSection.sentences, FrameIdx, frame.range_start,
                              frame.range_end, frame.length_threshold)
    /\ ExpanderReturned =>
           \A s \in 1..Len(patients[1].notes[1].sections) :
               LET section == patients[1].notes[1].sections[s]
                   short == {i \in SeqToSet(section.important_indices) :
                                Len(section.sentences[i + 1].text) < ExpanderThreshold}
                   windows == {w \in (0..Len(section.sentences)) \X (0..Len(section.sentences)) :
                                  \E i \in short :
                                      FinalWindow(section.sentences, i, w[1], w[2],
                                                  ExpanderThreshold)}
               IN  /\ \A i \in short :
                          \E w \in windows :
                              /\ w[1] <= i /\ i < w[2]
                              /\ w[1]..(w[2] - 1) \subseteq SeqToSet(section.expanded_indices)
                   /\ \A j \in SeqToSet(section.expanded_indices) :
                          \/ j \in SeqToSet(section.important_indices) \ short
                          \/ \E w \in windows :
                                 /\ w[1] <= j /\ j < w[2]
                                 /\ w[1]..(w[2] - 1) \subseteq SeqToSet(section.expanded_indices)
                   /\ section.expanded_indices =
                          ExpandSectionSentences(section.sentences, section.important_indices,
                                                 ExpanderThreshold)
                   /\ (input[1].notes[1].sections[s] = ExampleSection /\ ExpanderThreshold = 50)
                          => section.expanded_indices = <<0, 1, 2, 3, 4>>

\* the call on the section of lengths [6,22,17,18,15] returned under the
\* threshold 50
C27_Witness ==
    /\ ExpanderReturned
    /\ input[1].notes[1].sections = <<ExampleSection>>
    /\ ExpanderThreshold = 50
    /\ patients[1].notes[1].sections[1].expanded_indices = <<0, 1, 2, 3, 4>>

\* a round of the while loop makes the window larger or ends the loop
RoundGrows ==
    (pc = "expanding" /\ frame.at = "while" /\ frame'.at = "while") =>
        \/ frame'.range_end - frame'.range_start > frame.range_end - frame.range_start
        \/ frame' = frame

\* C28: the window-growing loop of SentenceExpander ends for every section,
\* every in-range important index and every threshold, a threshold above
\* the total length of the section, sentences of length zero and a section
\* of one sentence included: a round makes the window larger or leaves the
\* loop, and every call that began returns.
C28_ExpanderTerminates ==
    /\ [][RoundGrows]_vars
    /\ (pc = "expanding") ~> (pc = "returned")

\* the call returned on a section of one sentence, of length zero and
\* important, under a threshold that no window reaches
C28_Witness ==
    /\ ExpanderReturned
    /\ \E s \in 1..Len(patients[1].notes[1].sections) :
           LET section == patients[1].notes[1].sections[s]
           IN  /\ Len(section.sentences) = 1
               /\ section.sentences[1].text = <<>>
               /\ section.important_indices = <<0>>
               /\ section.expanded_indices = <<0>>
    /\ ExpanderThreshold = 50

\* ------------------------------------------------------------------------
\* SentenceSegmenter.process over the spans of an arbitrary segmenter
\* ------------------------------------------------------------------------

MaxSpanText == 3
MaxSpans == 2

\* the documents nlp.pipe can return for a text: up to MaxSpans spans of at
\* least one character, in order and not overlapping
Docs(text) ==
    LET spans == {[start_char |-> a, end_char |-> b] :
                     a \in 0..Len(text), b \in 0..Len(text)}
    IN  {sents \in SeqsUpTo({sent \in spans : sent.start_char < sent.end_char}, MaxSpans) :
            \A k \in 1..(Len(sents) - 1) : sents[k].end_char <= sents[k + 1].start_char}

SpanTexts == SeqsUpTo({"a", " ", NL}, MaxSpanText)

\* notes of one section that is the whole text, and notes of two sections
\* around the delimiter "|"
SegmenterNotes ==
    {[Note(t) EXCEPT !.sections = <<Section(t, 0, Len(t))>>] : t \in SpanTexts}
    \cup {[Note(t \o <<"|">> \o u) EXCEPT
              !.sections = <<Section(t, 0, Len(t)),
                             Section(u, Len(t) + 1, Len(t) + 1 + Len(u))>>] :
             t \in {<<"a">>, <<" ", "a">>}, u \in {<<"a", " ">>, <<" ">>}}

\* every choice of one document per section
RECURSIVE DocLists(_)
DocLists(sections) ==
    IF sections = <<>> THEN {<<>>}
    ELSE {<<doc>> \o rest : doc \in Docs(Head(sections).text), rest \in DocLists(Tail(sections))}

\* sentence_segmenter.process(note), nlp.pipe returning segmented_docs
SegmenterProcess(note, segmented_docs) ==
    /\ ctor = "ok" /\ kind = "sentence_segmenter" /\ pc = "idle"
    /\ input' = <<Patient("p", <<note>>)>>
    /\ override' = [sentence_segmenter |-> <<>>]
    /\ trace' = <<[patient |-> 1, note |-> 1, component |-> "sentence_segmenter"]>>
    /\ frame' = [NoFrame EXCEPT !.segmented_docs = segmented_docs]
    /\ patients' =
           <<Patient("p",
               <<[note EXCEPT !.sections =
                     [k \in 1..Len(note.sections) |->
                         [note.sections[k] EXCEPT !.sentences =
                             CreateSentencesFromSents(note.sections[k].text, segmented_docs[k],
                                                      note.sections[k].start_index)]]]>>)>>
    /\ pc' = "returned"
    /\ UNCHANGED <<cacheVars, sharingVars, ctor, kind, config, components, preprocessed_params, note_idx,
                   comp_idx, pool, dropped, prior_nonempty>>

NextSegmenter ==
    \/ \E batch_size \in {1, DefaultBatchSize} :
           ComponentInit("sentence_segmenter", [batch_size |-> Some(batch_size)])
    \/ \E note \in SegmenterNotes : \E segmented_docs \in DocLists(note.sections) :
           SegmenterProcess(note, segmented_docs)
    \/ Release

SpecSegmenter == Init /\ [][NextSegmenter]_vars

\* ------------------------------------------------------------------------
\* C29
\* ------------------------------------------------------------------------

SegmenterReturned == ctor = "ok" /\ kind = "sentence_segmenter" /\ pc = "returned"

\* the Sentence built from the k-th span of section s agrees with the note
SentenceConsistent(s, k) ==
    LET note == patients[1].notes[1]
        sentence == note.sections[s].sentences[k]
    IN  /\ sentence.text = Strip(sentence.text)
        /\ sentence.end_index - sentence.start_index = Len(sentence.text)
        /\ sentence.start_index <= sentence.end_index
        /\ SubSeq(note.text, sentence.start_index + 1, sentence.end_index) = sentence.text

\* C29: for every span that the segmenter returns for a section, whatever
\* whitespace it carries, the Sentence built from it has a text without
\* leading or trailing whitespace, end_index - start_index = len(text),
\* start_index <= end_index, and the note text at [start_index, end_index)
\* is that text.
C29_SentenceOffsetsConsistent ==
    SegmenterReturned =>
        \A s \in 1..Len(patients[1].notes[1].sections) :
            \A k \in 1..Len(patients[1].notes[1].sections[s].sentences) :
                SentenceConsistent(s, k)

\* the same for the spans that hold a character that is not whitespace
C29_NonBlankSpansConsistent ==
    SegmenterReturned =>
        \A s \in 1..Len(patients[1].notes[1].sections) :
            \A k \in 1..Len(patients[1].notes[1].sections[s].sentences) :
                LET sent == frame.segmented_docs[s][k]
                    section == patients[1].notes[1].sections[s]
                IN  Strip(SubSeq(section.text, sent.start_char + 1, sent.end_char)) # <<>>
                        => /\ SentenceConsistent(s, k)
                           /\ section.sentences[k].start_index >=
                                  section.start_index + sent.start_char
                           /\ section.sentences[k].end_index <=
                                  section.start_index + sent.end_char

\* the segmenter returned a span of whitespace alone, and the Sentence built
\* from it starts after its end
C29_Witness ==
    /\ SegmenterReturned
    /\ \E s \in 1..Len(patients[1].notes[1].sections) :
           \E k \in 1..Len(frame.segmented_docs[s]) :
               LET sent == frame.segmented_docs[s][k]
                   section == patients[1].notes[1].sections[s]
               IN  /\ sent.start_char < sent.end_char
                   /\ Strip(SubSeq(section.text, sent.start_char + 1, sent.end_char)) = <<>>
                   /\ section.sentences[k].start_index > section.sentences[k].end_index

\* ------------------------------------------------------------------------
\* C30
\* ------------------------------------------------------------------------

\* the stages that assign note.text
TextStages == <<"encoding_fixer", "pattern_replacer", "word_masker">>

\* the text of note n of patient i as the text stages that ran on it so far
\* leave the text that was passed in
TextOfTextStages(i, n) ==
    RunComponents(input[i].notes[n], RanOn(i, n, TextStages), components,
                  preprocessed_params).note.text

\* the offsets of the sections and of the sentences of the note point at
\* their texts in text
OffsetsValid(note, text) ==
    \A s \in 1..Len(note.sections) :
        LET section == note.sections[s]
        IN  /\ 0 <= section.start_index /\ section.end_index <= Len(text)
            /\ SubSeq(text, section.start_index + 1, section.end_index) = section.text
            /\ \A k \in 1..Len(section.sentences) :
                   /\ section.start_index <= section.sentences[k].start_index
                   /\ section.sentences[k].end_index <= section.end_index
                   /\ SubSeq(text, section.sentences[k].start_index + 1,
                             section.sentences[k].end_index) = section.sentences[k].text

\* C30: no stage from SectionSplitter onward (section_splitter,
\* section_filter, sentence_segmenter, duplicate_checker, sentence_filter,
\* sentence_expander, joiner, ml_inference) changes note.text, and
\* NoteFilter does not either: whatever stages have run, the text of a note
\* is the text that EncodingFixer, PatternReplacer and WordMasker left; and
\* the offsets of the sections and sentences of a note that was passed in
\* without sections point at their texts in note.text.
C30_TextKeptOffsetsValid ==
    NotesSettled =>
        \A i \in 1..Len(patients) : \A n \in 1..Len(patients[i].notes) :
            /\ patients[i].notes[n].text = TextOfTextStages(i, n)
            /\ input[i].notes[n].sections = <<>> =>
                   OffsetsValid(patients[i].notes[n], patients[i].notes[n].text)

\* a call returned with a note whose text the text stages changed, split
\* into two sections with sentences, joined and classified
C30_Witness ==
    /\ ctor = "ok" /\ pc = "returned" /\ MLRan
    /\ \E i \in 1..Len(patients) : \E n \in 1..Len(patients[i].notes) :
           LET note == patients[i].notes[n]
           IN  /\ input[i].notes[n].sections = <<>>
               /\ note.text # input[i].notes[n].text
               /\ Len(note.sections) = 2
               /\ note.sections[2].start_index > 0
               /\ note.sections[2].sentences # <<>>
               /\ note.preprocessed_text # None
               /\ note.preprocessed_text # Some(note.text)
               /\ note.predicted_label # None
               /\ SeqToSet(<<"note_filter", "section_splitter", "section_filter",
                             "sentence_segmenter", "duplicate_checker", "sentence_filter",
                             "sentence_expander", "joiner", "ml_inference">>)
                      \subseteq {NoteTrace(i, n)[k].component : k \in 1..Len(NoteTrace(i, n))}

\* ------------------------------------------------------------------------
\* Threads of the API server calling process on one SinglePipeline
\* ------------------------------------------------------------------------

\* the patients of the requests: one note with the sentence "i d x.", and
\* one note with the sentences "d." and "i d x."
SharedPatients == {Patient("p", <<Note(TextA)>>), Patient("q", <<Note(TextD)>>)}

\* the loops' position of a call after an iteration of the inner loop
PositionAfter(c, brk) ==
    IF brk \/ c.comp_idx = Len(OrderedComponents(config))
    THEN [c EXCEPT !.note_idx = @ + 1, !.comp_idx = 1]
    ELSE [c EXCEPT !.comp_idx = @ + 1]

Running(k) == calls[k].pc = "running"

\* single_pipeline_instance.process(patient, config) in thread k, up to the
\* first loop iteration: preprocess_params and clear_lsh on the shared
\* DuplicateChecker
CallBegin(k, p) ==
    /\ ctor = "ok" /\ kind = "single" /\ pc = "idle"
    /\ calls[k].pc = "idle"
    /\ LET pparams == PreprocessParams(components, <<>>)
           overlaps == \E j \in Callers \ {k} : Running(j)
       IN  /\ components' = AfterClear(components, pparams)
           /\ calls' = [j \in Callers |->
                           IF j = k
                           THEN [pc |-> "running", patient |-> p, input |-> p,
                                 preprocessed_params |-> pparams, note_idx |-> 1,
                                 comp_idx |-> 1, overlapped |-> overlaps]
                           ELSE IF Running(j) THEN [calls[j] EXCEPT !.overlapped = TRUE]
                           ELSE calls[j]]
    /\ UNCHANGED <<frame, cacheVars, passes, overridden, metaVars, ctor, kind, config, pc, callVars>>

\* one iteration of the inner loop of SinglePipeline.process in thread k
CallStep(k) ==
    /\ Running(k)
    /\ calls[k].note_idx <= Len(calls[k].patient.notes)
    /\ LET c == calls[k]
           component_name == OrderedComponents(config)[c.comp_idx]
           component == components[component_name].component
           params == c.preprocessed_params[component_name].params
           note == c.patient.notes[c.note_idx]
       IN  IF component = None \/ ~c.preprocessed_params[component_name].should_process
           THEN /\ calls' = [calls EXCEPT ![k] = PositionAfter(c, FALSE)]
                /\ UNCHANGED components
           ELSE IF ComponentRaises(component_name, Value(component), note, params)
           THEN /\ calls' = [calls EXCEPT ![k].pc = "raised"]
                /\ UNCHANGED components
           ELSE LET r == ComponentProcess(component_name, Value(component), note, params)
                IN  /\ components' =
                           [components EXCEPT ![component_name].component = Some(r.self)]
                    /\ calls' = [calls EXCEPT ![k] =
                                    PositionAfter(
                                        [c EXCEPT !.patient.notes[c.note_idx] =
                                            IF r.none
                                            THEN [r.note EXCEPT !.preprocessed_text = Some(<<>>)]
                                            ELSE r.note],
                                        r.none)]
    /\ UNCHANGED <<frame, cacheVars, passes, overridden, metaVars, ctor, kind, config, pc, callVars>>

\* return patient in thread k
CallReturn(k) ==
    /\ Running(k)
    /\ calls[k].note_idx > Len(calls[k].patient.notes)
    /\ calls' = [calls EXCEPT ![k].pc = "returned"]
    /\ UNCHANGED <<frame, cacheVars, passes, overridden, metaVars, pipelineVars>>

\* the response of thread k was sent
CallRelease(k) ==
    /\ calls[k].pc \in {"returned", "raised"}
    /\ calls' = [calls EXCEPT ![k] = NoCallOf]
    /\ UNCHANGED <<frame, cacheVars, passes, overridden, metaVars, pipelineVars>>

NextShared ==
    \/ Construct("single", ConfigWith(ComponentNames, [ml_inference |-> "excluded"]))
    \/ \E k \in Callers, p \in SharedPatients : CallBegin(k, p)
    \/ \E k \in Callers : CallStep(k)
    \/ \E k \in Callers : CallReturn(k)
    \/ \E k \in Callers : CallRelease(k)

SpecShared == Init /\ [][NextShared]_vars

\* ------------------------------------------------------------------------
\* C31
\* ------------------------------------------------------------------------

\* the notes that SinglePipeline.process leaves when it runs alone on a
\* pipeline with the component objects comps: clear_lsh, then the loops
ProcessAlone(p, comps, pparams) ==
    RunNotes(p.notes, 1, ComponentsToProcess(OrderedComponents(config), pparams),
             AfterClear(comps, pparams), pparams).notes

\* the marks of the DuplicateChecker on the notes
DuplicateMarks(notes) ==
    [n \in 1..Len(notes) |->
        [s \in 1..Len(notes[n].sections) |->
            [duplicate_indices |-> notes[n].sections[s].duplicate_indices,
             is_duplicate |-> [j \in 1..Len(notes[n].sections[s].sentences) |->
                                  notes[n].sections[s].sentences[j].is_duplicate]]]]

\* C31: when calls of SinglePipeline.process run concurrently on the one
\* pipeline instance of the API, every call returns the duplicate marks it
\* gives when it runs alone: no sentence is marked on account of a sentence
\* of the other call, and no repeated sentence escapes because the other
\* call reset the LSH.
C31_ConcurrentCallsIsolated ==
    \A k \in Callers :
        calls[k].pc = "returned" =>
            DuplicateMarks(calls[k].patient.notes) =
                DuplicateMarks(ProcessAlone(calls[k].input, components,
                                            calls[k].preprocessed_params))

\* a call returned that ran while the call of the other thread was under
\* way, and a sentence of its only note, which occurs once, is marked
C31_Witness ==
    \E k \in Callers :
        /\ calls[k].pc = "returned"
        /\ calls[k].overlapped
        /\ calls[k].input = Patient("p", <<Note(TextA)>>)
        /\ \E s \in 1..Len(calls[k].patient.notes[1].sections) :
               calls[k].patient.notes[1].sections[s].duplicate_indices # <<>>

\* a call that met no other call returns the marks it gives alone
C31_SequentialCallsIsolated ==
    \A k \in Callers :
        (calls[k].pc = "returned" /\ ~calls[k].overlapped) =>
            DuplicateMarks(calls[k].patient.notes) =
                DuplicateMarks(ProcessAlone(calls[k].input, components,
                                            calls[k].preprocessed_params))

\* ------------------------------------------------------------------------
\* C32
\* ------------------------------------------------------------------------

\* the notes that BatchPipeline.process leaves for a patient that is the
\* only one of its batch: the first pool, the segmenter, the second pool
BatchAlone(p, comps, pparams) ==
    LET phase1 == RunNotes(p.notes, 1, ComponentsToProcess(Phase1Components, pparams),
                           comps, pparams).notes
        segmented ==
            IF /\ "sentence_segmenter" \in DOMAIN pparams
               /\ pparams["sentence_segmenter"].should_process
            THEN [n \in 1..Len(phase1) |-> SentenceSegmenterProcess(phase1[n])]
            ELSE phase1
    IN  RunNotes(segmented, 1, ComponentsToProcess(Phase3Components, pparams),
                 comps, pparams).notes

\* what the stages from the DuplicateChecker to the Joiner leave on the notes
NoteResults(notes) ==
    [n \in 1..Len(notes) |->
        [preprocessed_text |-> notes[n].preprocessed_text,
         sections |->
             [s \in 1..Len(notes[n].sections) |->
                 [duplicate_indices |-> notes[n].sections[s].duplicate_indices,
                  important_indices |-> notes[n].sections[s].important_indices,
                  is_duplicate |-> [j \in 1..Len(notes[n].sections[s].sentences) |->
                                       notes[n].sections[s].sentences[j].is_duplicate]]]]]

\* C32: the result of BatchPipeline.process for a patient (the is_duplicate
\* marks, duplicate_indices, important_indices and preprocessed_text of its
\* notes) is the result the patient has as the only one of a batch under
\* the same configuration, whatever other patients are in the batch and
\* however the pool runs its tasks; equal patients of a batch all get the
\* preprocessed_text they get alone.
C32_PatientResultIndependent ==
    BatchReturned =>
        \A i \in 1..Len(patients) :
            NoteResults(patients[i].notes) =
                NoteResults(BatchAlone(input[i], components, preprocessed_params))

\* a batch of two equal patients returned, the DuplicateChecker and the
\* Joiner having run, and alone the patient gets a non-empty
\* preprocessed_text
C32_Witness ==
    /\ BatchReturned
    /\ Len(input) = 2
    /\ input[1] = input[2]
    /\ Len(input[1].notes) = 1
    /\ input[1].notes[1].sections = <<>>
    /\ \E e \in SeqToSet(trace) : e.patient = 2 /\ e.component = "duplicate_checker"
    /\ \E e \in SeqToSet(trace) : e.patient = 2 /\ e.component = "joiner"
    /\ BatchAlone(input[2], components, preprocessed_params)[1].preprocessed_text
           \notin {None, Some(<<>>)}
    /\ patients[2].notes[1].preprocessed_text = Some(<<>>)

\* the first patient of a batch has the result it has alone
C32_FirstPatientIndependent ==
    (BatchReturned /\ Len(patients) >= 1) =>
        NoteResults(patients[1].notes) =
            NoteResults(BatchAlone(input[1], components, preprocessed_params))

\* ------------------------------------------------------------------------
\* BatchPipeline.process on batches of one patient
\* ------------------------------------------------------------------------

\* "i d x. i d y.": two sentences that share two of their four words
TextF == <<"i", " ", "d", " ", "x", ".", " ", "i", " ", "d", " ", "y", ".">>

\* patients with fresh notes
FreshPatients ==
    {Patient("p", notes) :
        notes \in {<<>>, <<Note(TextA)>>, <<Note(TextB)>>, <<Note(TextC)>>, <<Note(TextD)>>,
                   <<Note(TextE)>>, <<Note(TextF)>>, <<Note(TextA), Note(TextA)>>,
                   <<Note(TextC), Note(TextB)>>}}

EquivOverrides ==
    { <<>>,
      [sentence_filter |-> [status |-> "disabled"]],
      [section_filter |-> [status |-> "disabled"]],
      [duplicate_checker |-> [status |-> "disabled"]],
      [duplicate_checker |-> [length_threshold |-> 7]],
      [duplicate_checker |-> [sim_threshold |-> 50]],
      [note_filter |-> [words_to_search |-> << <<"y">> >>]],
      [sentence_expander |-> [length_threshold |-> 50]],
      [joiner |-> [sentence_delimiter |-> <<"|">>]] }

NextEquiv ==
    \/ Construct("batch", ConfigWith(ComponentNames, [ml_inference |-> "excluded"]))
    \/ \E p \in FreshPatients, ov \in EquivOverrides : BatchProcessBegin(<<p>>, ov)
    \/ PoolWorker(1)
    \/ PoolJoin
    \/ BatchSegment
    \/ BatchInfer
    \/ Release

SpecEquiv == Init /\ [][NextEquiv]_vars

\* ------------------------------------------------------------------------
\* C33
\* ------------------------------------------------------------------------

\* SinglePipeline.process(p, overrides) on a pipeline built from the
\* configuration of this one: the outcome of the loops after clear_lsh
SingleOutcome(p) ==
    RunNotes(p.notes, 1,
             ComponentsToProcess(OrderedComponents(config), preprocessed_params),
             AfterClear(InitComponents(config), preprocessed_params), preprocessed_params)

\* the sections, marks, index lists and preprocessed_text of the notes
WithoutPrediction(notes) ==
    [n \in 1..Len(notes) |->
        [text |-> notes[n].text, sections |-> notes[n].sections,
         preprocessed_text |-> notes[n].preprocessed_text]]

\* C33: for a patient p with fresh notes and any override map,
\* BatchPipeline.process([p], overrides) leaves every note with the
\* sections, the is_duplicate and is_important marks, the index lists and
\* the preprocessed_text that SinglePipeline.process(p, overrides) leaves
\* on a pipeline built from the same configuration.
C33_BatchOfOneEqualsSingle ==
    (BatchReturned /\ Len(input) = 1) =>
        /\ ~SingleOutcome(input[1]).raised
        /\ WithoutPrediction(patients[1].notes) =
               WithoutPrediction(SingleOutcome(input[1]).notes)

\* the same for the calls that do not override sim_threshold or num_perm
C33_EqualWithoutLshOverride ==
    (/\ BatchReturned /\ Len(input) = 1
     /\ \/ "duplicate_checker" \notin DOMAIN override
        \/ DOMAIN override["duplicate_checker"] \cap {"sim_threshold", "num_perm"} = {}) =>
        /\ ~SingleOutcome(input[1]).raised
        /\ WithoutPrediction(patients[1].notes) =
               WithoutPrediction(SingleOutcome(input[1]).notes)

\* the batch of one patient returned under an override of sim_threshold,
\* the note having two sentences that share half of their words
C33_Witness ==
    /\ BatchReturned /\ Len(input) = 1
    /\ input[1].notes = <<Note(TextF)>>
    /\ "duplicate_checker" \in DOMAIN override
    /\ "sim_threshold" \in DOMAIN override["duplicate_checker"]
    /\ patients[1].notes[1].sections[1].duplicate_indices = <<>>
    /\ SingleOutcome(input[1]).notes[1].sections[1].duplicate_indices = <<1>>

\* SinglePipeline.process returns what the loops after clear_lsh give
C33_SingleIsItsOutcome ==
    (ctor = "ok" /\ kind = "single" /\ pc = "returned") =>
        patients[1].notes =
            RunNotes(input[1].notes, 1,
                     ComponentsToProcess(OrderedComponents(config), preprocessed_params),
                     AfterClear(components, preprocessed_params), preprocessed_params).notes

\* ------------------------------------------------------------------------
\* Calls with overrides followed by calls without
\* ------------------------------------------------------------------------

AfterPatients ==
    {Patient("p", <<Note(TextA)>>), Patient("q", <<Note(TextF)>>),
     Patient("r", <<Note(TextB), Note(TextA)>>)}

AfterOverrides ==
    { <<>>,
      [duplicate_checker |-> [sim_threshold |-> 50]],
      [duplicate_checker |-> [status |-> "disabled"]],
      [sentence_filter |-> [status |-> "disabled"], joiner |-> [sentence_delimiter |-> <<"|">>]],
      [duplicate_checker |-> [status |-> "enabled", length_threshold |-> 7]],
      [section_filter |-> [status |-> "disabled"]] }

AfterConfigs ==
    { ConfigWith(ComponentNames, [ml_inference |-> "excluded"]),
      ConfigWith(ComponentNames, [ml_inference |-> "excluded", duplicate_checker |-> "disabled"]),
      ConfigWith(ComponentNames, [ml_inference |-> "excluded", section_filter |-> "excluded"]) }

NextAfter ==
    \/ \E k \in {"single", "batch"}, cfg \in AfterConfigs : Construct(k, cfg)
    \/ \E p \in AfterPatients, ov \in AfterOverrides : SingleProcessBegin(p, ov)
    \/ SingleStep
    \/ SingleReturn
    \/ \E ps \in SeqsUpTo(AfterPatients, MaxPatients) \ {<<>>}, ov \in AfterOverrides :
           BatchProcessBegin(ps, ov)
    \/ PoolWorker(1)
    \/ PoolJoin
    \/ BatchSegment
    \/ BatchInfer
    \/ ReleaseNoting

SpecAfter == Init /\ [][NextAfter]_vars

\* ------------------------------------------------------------------------
\* C34
\* ------------------------------------------------------------------------

\* a pool phase of BatchPipeline.process on a pipeline whose component
\* objects are fresh: the worker of a chunk starts from a copy of them and
\* runs the patients of the chunk one after the other
RECURSIVE PhaseFrom(_, _, _, _, _, _)
PhaseFrom(ps, i, todo, comps, fresh, pparams) ==
    IF i > Len(ps) \/ todo = <<>> THEN ps
    ELSE LET r == PartialProcessPhase(PickleDumps(ps[i]), todo,
                                      IF (i - 1) % ChunkSize = 0 THEN fresh ELSE comps,
                                      pparams)
         IN  PhaseFrom([ps EXCEPT ![i] = PickleLoads(r.bytes)], i + 1, todo, r.comps, fresh,
                       pparams)

\* what a call without overrides returns on a pipeline just built from the
\* configuration
FreshResult(ps) ==
    LET fresh == InitComponents(config)
        pparams == PreprocessParams(fresh, <<>>)
        phase1 == PhaseFrom(ps, 1, ComponentsToProcess(Phase1Components, pparams), fresh,
                            fresh, pparams)
        segmented ==
            IF /\ "sentence_segmenter" \in DOMAIN pparams
               /\ pparams["sentence_segmenter"].should_process
            THEN SentenceSegmenterProcessBatchPatients(phase1)
            ELSE phase1
    IN  IF kind = "single"
        THEN <<[ps[1] EXCEPT !.notes =
                   RunNotes(ps[1].notes, 1,
                            ComponentsToProcess(OrderedComponents(config), pparams),
                            AfterClear(fresh, pparams), pparams).notes]>>
        ELSE PhaseFrom(segmented, 1, ComponentsToProcess(Phase3Components, pparams), fresh,
                       fresh, pparams)

\* the status and the instance parameters of a stage
Defaults(comps, name) ==
    [status |-> comps[name].status,
     self |-> IF comps[name].component = None THEN None
              ELSE IF name = "duplicate_checker"
              THEN Some([key \in DOMAIN Value(comps[name].component) \ {"lsh"} |->
                            Value(comps[name].component)[key]])
              ELSE comps[name].component]

\* C34: an override of a status or of parameters affects only the call it
\* is passed to.  Whatever calls were made, the stages have the statuses and
\* the instance parameters they were constructed with, and a call without
\* overrides returns what it returns on a pipeline on which no call was
\* made before, for SinglePipeline and for BatchPipeline.
C34_OverridesDoNotPersist ==
    ctor = "ok" =>
        /\ \A name \in DOMAIN components :
               Defaults(components, name) = Defaults(InitComponents(config), name)
        /\ (pc = "returned" /\ override = <<>>) => patients = FreshResult(input)

\* a call without overrides returned on a pipeline that an earlier call
\* with overrides had used, the DuplicateChecker having run on a note with
\* two sentences that share half of their words
C34_Witness ==
    /\ ctor = "ok" /\ pc = "returned" /\ override = <<>>
    /\ overridden
    /\ \E i \in 1..Len(input) : input[i].notes = <<Note(TextF)>>
    /\ \E e \in SeqToSet(trace) : e.component = "duplicate_checker"

\* ------------------------------------------------------------------------
\* SinglePipeline.process called again on the patient it returned
\* ------------------------------------------------------------------------

MaxPasses == 2

\* single_pipeline.process(patient) on the Patient object an earlier call
\* mutated and returned
SingleProcessAgain ==
    /\ ctor = "ok" /\ kind = "single" /\ pc = "returned"
    /\ passes < MaxPasses
    /\ LET pparams == PreprocessParams(components, <<>>)
       IN  /\ preprocessed_params' = pparams
           /\ components' = AfterClear(MarkStale(components), pparams)
    /\ prior_nonempty' = (/\ components["duplicate_checker"].component # None
                          /\ Value(components["duplicate_checker"].component).lsh.entries # {})
    /\ passes' = passes + 1
    /\ override' = <<>>
    /\ input' = patients
    /\ note_idx' = 1
    /\ comp_idx' = 1
    /\ trace' = <<>>
    /\ dropped' = {}
    /\ pc' = "single"
    /\ UNCHANGED <<frame, cacheVars, calls, overridden, metaVars, ctor, kind, config, pool, patients>>

AgainPatients ==
    {Patient("p", <<Note(TextA)>>), Patient("q", <<Note(TextB)>>),
     Patient("r", <<Note(TextC), Note(TextF)>>), Patient("s", <<Note(<<" ">>)>>)}

AgainConfigs ==
    { ConfigWith(ComponentNames, [ml_inference |-> "excluded"]),
      ConfigWith(ComponentNames, [ml_inference |-> "excluded", section_splitter |-> "disabled"]) }

NextAgain ==
    \/ \E cfg \in AgainConfigs : Construct("single", cfg)
    \/ \E p \in AgainPatients : SingleProcessBegin(p, <<>>)
    \/ SingleStep
    \/ SingleReturn
    \/ SingleProcessAgain
    \/ Release

SpecAgain == Init /\ [][NextAgain]_vars

\* ------------------------------------------------------------------------
\* C35
\* ------------------------------------------------------------------------

\* the delimiter-separated pieces of the text of a note
Pieces(note) ==
    Split(note.text, Value(Value(components["section_splitter"].component).delimiter))

SplitterRanOn(n) ==
    \E e \in SeqToSet(trace) : e.note = n /\ e.component = "section_splitter"

\* C35: processing the Patient object that an earlier call of
\* SinglePipeline.process returned yields the sections, marks and
\* preprocessed_text of the first pass, and a note on which
\* SectionSplitter ran has as many sections as its text has
\* delimiter-separated pieces.
C35_SecondPassIdempotent ==
    (ctor = "ok" /\ kind = "single" /\ pc = "returned" /\ passes >= 1) =>
        /\ NoteResults(patients[1].notes) = NoteResults(input[1].notes)
        /\ \A n \in 1..Len(patients[1].notes) :
               SplitterRanOn(n) =>
                   Len(patients[1].notes[n].sections) = Len(Pieces(patients[1].notes[n]))

\* the second pass returned for a note of two pieces, which now has four
\* sections
C35_Witness ==
    /\ ctor = "ok" /\ kind = "single" /\ pc = "returned" /\ passes = 1
    /\ \E n \in 1..Len(patients[1].notes) :
           /\ SplitterRanOn(n)
           /\ Len(Pieces(patients[1].notes[n])) = 2
           /\ Len(input[1].notes[n].sections) = 2
           /\ Len(patients[1].notes[n].sections) = 4

\* the first pass gives every note on which SectionSplitter ran one section
\* per piece of its text
C35_FirstPassSectionCount ==
    (ctor = "ok" /\ kind = "single" /\ pc = "returned" /\ passes = 0) =>
        \A n \in 1..Len(patients[1].notes) :
            SplitterRanOn(n) =>
                Len(patients[1].notes[n].sections) = Len(Pieces(patients[1].notes[n]))

\* ------------------------------------------------------------------------
\* C36
\* ------------------------------------------------------------------------

\* the patients as the stages left them: those of the SinglePipeline call,
\* or those the workers of the pool sent back
Loaded ==
    IF kind = "single" THEN patients
    ELSE [i \in 1..Len(pool.serialized) |-> PickleLoads(pool.serialized[i])]

\* the DuplicateChecker objects at work: the one of the SinglePipeline, or
\* the copy of the worker of each chunk (the copy of a worker whose task
\* raised is lost with the task)
Workers == IF kind = "single" THEN {1} ELSE {c \in DOMAIN pool.done : ~pool.raised[c]}

WorkerLsh(c) ==
    IF kind = "single" THEN Lsh
    ELSE Value(pool.comps[c]["duplicate_checker"].component).lsh

ChunkOf(i) == IF kind = "single" THEN 1 ELSE ((i - 1) \div ChunkSize) + 1

\* the sentences DuplicateChecker.process looked up in the index of c: those
\* of the notes it ran on that have the effective length_threshold
CheckedBy(c) ==
    {q \in (1..Len(Loaded)) \X (1..MaxNotes + 1) \X (1..4) \X (1..4) :
        /\ q[2] <= Len(Loaded[q[1]].notes)
        /\ q[3] <= Len(Loaded[q[1]].notes[q[2]].sections)
        /\ q[4] <= Len(Loaded[q[1]].notes[q[2]].sections[q[3]].sentences)
        /\ ChunkOf(q[1]) = c
        /\ Len(SentenceAt(Loaded, q).text) >=
               EffectiveSetting("duplicate_checker", "length_threshold")
        /\ \E e \in SeqToSet(trace) :
               e.patient = q[1] /\ e.note = q[2] /\ e.component = "duplicate_checker"}

KeptBy(c) == {q \in CheckedBy(c) : ~SentenceAt(Loaded, q).is_duplicate}

Earlier(p, q) == p[1] < q[1] \/ (p[1] = q[1] /\ Before(p, q))

\* C36: at every point of a call, the LSH index of a DuplicateChecker holds
\* the signatures of exactly the sentences it processed since it was reset
\* that have the length_threshold and were not marked duplicate, and a
\* sentence is marked duplicate only when an earlier sentence that was kept
\* collides with it.
C36_LshHoldsKeptSentences ==
    (/\ InCall /\ MayRun("duplicate_checker")
     /\ \/ kind = "single" /\ pc \in {"single", "returned", "raised"}
        \/ kind = "batch" /\ pc = "phase3") =>
        \A c \in Workers :
            /\ {[key |-> e.key, text |-> e.text] : e \in WorkerLsh(c).entries} =
                   {[key |-> GetMinhash(SentenceAt(Loaded, q)),
                     text |-> SentenceAt(Loaded, q).text] : q \in KeptBy(c)}
            /\ \A e \in WorkerLsh(c).entries : ~e.stale
            /\ \A q \in CheckedBy(c) \ KeptBy(c) :
                   \E p \in KeptBy(c) :
                       /\ Earlier(p, q)
                       /\ Similar(GetMinhash(SentenceAt(Loaded, p)),
                                  GetMinhash(SentenceAt(Loaded, q)),
                                  WorkerLsh(c).threshold)

\* an index holds a sentence, and a sentence with another text was marked
\* duplicate and is not in it
C36_Witness ==
    /\ InCall /\ MayRun("duplicate_checker")
    /\ \/ kind = "single" /\ pc = "single"
       \/ kind = "batch" /\ pc = "phase3"
    /\ \E c \in Workers :
           /\ KeptBy(c) # {}
           /\ \E q \in CheckedBy(c) \ KeptBy(c) :
                  \A e \in WorkerLsh(c).entries : e.text # SentenceAt(Loaded, q).text

\* ------------------------------------------------------------------------
\* C37
\* ------------------------------------------------------------------------

\* the patients of the call at this point of it
CurrentPatients == IF kind = "batch" /\ pc \in {"phase1", "phase3"} THEN Loaded ELSE patients

StageRanOn(i, n, name) ==
    \E e \in SeqToSet(trace) : e.patient = i /\ e.note = n /\ e.component = name

\* C37: a note whose sections SectionSplitter produced in this call and
\* SectionFilter did not process has no section with is_important set, and
\* once Joiner ran on it its preprocessed_text is the empty string, whatever
\* sentences SentenceFilter marked important.
C37_UnfilteredSectionsNotJoined ==
    InCall =>
        \A i \in 1..Len(CurrentPatients) : \A n \in 1..Len(CurrentPatients[i].notes) :
            (input[i].notes[n].sections = <<>> /\ ~StageRanOn(i, n, "section_filter")) =>
                /\ \A s \in 1..Len(CurrentPatients[i].notes[n].sections) :
                       ~CurrentPatients[i].notes[n].sections[s].is_important
                /\ StageRanOn(i, n, "joiner") => CurrentPatients[i].notes[n].preprocessed_text = Some(<<>>)

\* Joiner ran on a note that SectionSplitter split, SectionFilter did not
\* process and in which SentenceFilter marked a sentence important
C37_Witness ==
    /\ InCall
    /\ \E i \in 1..Len(CurrentPatients) : \E n \in 1..Len(CurrentPatients[i].notes) :
           /\ input[i].notes[n].sections = <<>>
           /\ StageRanOn(i, n, "section_splitter")
           /\ ~StageRanOn(i, n, "section_filter")
           /\ StageRanOn(i, n, "sentence_filter")
           /\ StageRanOn(i, n, "joiner")
           /\ \E s \in 1..Len(CurrentPatients[i].notes[n].sections) :
                  CurrentPatients[i].notes[n].sections[s].important_indices # <<>>
           /\ CurrentPatients[i].notes[n].preprocessed_text = Some(<<>>)

\* ------------------------------------------------------------------------
\* MLInference objects constructed one after the other with their own models
\* ------------------------------------------------------------------------

MaxInstances == 2

\* _resolve_device(spec) as str(device) shows it: the index of a cuda
\* device, else the name of the torch device
ResolveDevice(spec) ==
    LET s == IF spec = None THEN "cpu" ELSE Value(spec)
    IN  CASE s = "cuda" -> "0"
          [] s = "cuda:0" -> "0"
          [] s = "cuda:1" -> "1"
          [] s = "mps" -> "mps"
          [] OTHER -> "cpu"

ModelSpec(model_path, tokenizer_path, device, max_length) ==
    [model_path |-> model_path, tokenizer_path |-> tokenizer_path, device |-> device,
     max_length |-> max_length]

ModelSpecs ==
    {ModelSpec("path/a", "path/a", None, 512),
     ModelSpec("path/a", "path/t", Some("cuda:1"), 128),
     ModelSpec("path/b", "path/b", Some("cuda"), 512)}

\* the models dictionaries: name -> ModelSpec in insertion order
ModelsConfigs ==
    {<<[name |-> n, spec |-> s]>> : n \in ModelNames, s \in ModelSpecs}
        \cup {<<[name |-> "default", spec |-> s], [name |-> "aux", spec |-> t]>> :
                 s \in ModelSpecs, t \in ModelSpecs}

Names(models) == {models[k].name : k \in 1..Len(models)}

SpecOf(models, model_name) ==
    models[CHOOSE k \in 1..Len(models) : models[k].name = model_name].spec

\* pipeline(task="text-classification", device=..., model=..., tokenizer=...,
\* max_length=...): the object, named by what it was built from
PipelineOf(spec) ==
    [model |-> spec.model_path, tokenizer |-> spec.tokenizer_path,
     device |-> ResolveDevice(spec.device), max_length |-> spec.max_length]

With(f, key, value) ==
    [k \in DOMAIN f \cup {key} |-> IF k = key THEN value ELSE f[k]]

\* self._get_or_load(model_name) run by one thread on the class-level cache
\* c and metadata m
GetOrLoad(models, model_name, c, m) ==
    IF model_name \notin Names(models) THEN [raised |-> TRUE, cache |-> c, meta |-> m]
    ELSE LET spec == SpecOf(models, model_name)
             cache_key == <<model_name, spec.model_path>>
             pipe == PipelineOf(spec)
         IN  IF cache_key \in DOMAIN c
             THEN [raised |-> FALSE, pipe |-> c[cache_key], cache |-> c, meta |-> m]
             ELSE [raised |-> FALSE, pipe |-> pipe,
                   cache |-> With(c, cache_key, pipe),
                   meta |-> With(m, model_name,
                                 [name |-> model_name, device |-> ResolveDevice(spec.device),
                                  max_length |-> spec.max_length])]

\* for m in self.models: self._get_or_load(m)
RECURSIVE LoadAll(_, _, _, _)
LoadAll(models, k, c, m) ==
    IF k > Len(models) THEN [cache |-> c, meta |-> m]
    ELSE LET r == GetOrLoad(models, models[k].name, c, m)
         IN  LoadAll(models, k + 1, r.cache, r.meta)

\* MLInference(models=models)
MLInferenceInit(models) ==
    /\ Len(instances) < MaxInstances
    /\ instances' = Append(instances, [models |-> models, _default_name |-> models[1].name])
    /\ cache' = LoadAll(models, 1, cache, loaded_meta).cache
    /\ loaded_meta' = LoadAll(models, 1, cache, loaded_meta).meta
    /\ classified' = None
    /\ UNCHANGED <<frame, calls, passes, overridden, pipelineVars, lock, thread, loads, obtained>>

\* instance k classifies a text with model_name (None: its default model):
\* pipe = self._select_pipe(model_name); results = pipe(text_to_infer, top_k=1)
ClassifyWith(k, model_name) ==
    /\ k \in 1..Len(instances)
    /\ LET name == IF model_name = None THEN instances[k]._default_name ELSE Value(model_name)
           r == GetOrLoad(instances[k].models, name, cache, loaded_meta)
       IN  /\ cache' = r.cache
           /\ loaded_meta' = r.meta
           /\ classified' = IF r.raised THEN None
                            ELSE Some([instance |-> k, name |-> name, pipe |-> r.pipe])
    /\ UNCHANGED <<frame, calls, passes, overridden, instances, pipelineVars, lock, thread,
                   loads, obtained>>

\* the process ends and another one starts
Restart ==
    /\ instances # <<>>
    /\ instances' = <<>>
    /\ cache' = <<>>
    /\ loaded_meta' = <<>>
    /\ classified' = None
    /\ UNCHANGED <<frame, calls, passes, overridden, pipelineVars, lock, thread, loads, obtained>>

NextMeta ==
    \/ \E models \in ModelsConfigs : MLInferenceInit(models)
    \/ \E k \in 1..MaxInstances, model_name \in {None} \cup {Some(n) : n \in ModelNames} :
           ClassifyWith(k, model_name)
    \/ Restart

SpecMeta == Init /\ [][NextMeta]_vars

\* ------------------------------------------------------------------------
\* C38
\* ------------------------------------------------------------------------

\* MLInference.get_loaded_meta(): the metadata sorted by name
GetLoadedMeta ==
    IF "aux" \in DOMAIN loaded_meta /\ "default" \in DOMAIN loaded_meta
    THEN <<loaded_meta["aux"], loaded_meta["default"]>>
    ELSE [k \in 1..Cardinality(DOMAIN loaded_meta) |->
             loaded_meta[CHOOSE n \in DOMAIN loaded_meta : TRUE]]

MetaOf(model_name) ==
    CHOOSE meta \in SeqToSet(GetLoadedMeta) : meta.name = model_name

\* C38: when an MLInference instance classifies with model name n, the
\* pipeline it uses was built from the instance's own ModelSpec for n, and
\* the metadata get_loaded_meta reports for n describes that pipeline.
C38_PipelineFromOwnSpec ==
    classified # None =>
        LET c == Value(classified)
            spec == SpecOf(instances[c.instance].models, c.name)
        IN  /\ c.pipe = PipelineOf(spec)
            /\ MetaOf(c.name).device = c.pipe.device
            /\ MetaOf(c.name).max_length = c.pipe.max_length

\* the second instance constructed classified with a name that the first
\* has too, with another ModelSpec
C38_Witness ==
    /\ classified # None
    /\ Len(instances) = 2
    /\ Value(classified).instance = 2
    /\ Value(classified).name \in Names(instances[1].models)
    /\ SpecOf(instances[1].models, Value(classified).name) #
           SpecOf(instances[2].models, Value(classified).name)

\* what the cache key does guarantee: the model of the pipeline used is the
\* one at the model_path of the instance's ModelSpec, and the name has
\* metadata
C38_ModelPathFromOwnSpec ==
    classified # None =>
        LET c == Value(classified)
        IN  /\ c.pipe.model = SpecOf(instances[c.instance].models, c.name).model_path
            /\ c.name \in DOMAIN loaded_meta

\* ------------------------------------------------------------------------
\* The routes of the API server: process with config=config.model_dump()
\* ------------------------------------------------------------------------

\* ConfigModel.model_dump(): every field of the model is a key, and the
\* fields the request left out have the value None
ModelDump(request) ==
    [name \in SeqToSet(ComponentNames) \cup {"debug"} |->
        IF name = "debug" THEN Some(FALSE)
        ELSE IF name \in DOMAIN request THEN Some(request[name])
        ELSE None]

\* preprocess_params(config) raises: current_config.get("status", ...) with
\* current_config None, for a stage that has a component
PreprocessParamsRaises(comps, dumped) ==
    \E name \in DOMAIN comps :
        /\ comps[name].component # None
        /\ name \in DOMAIN dumped
        /\ dumped[name] = None

\* the call raised in preprocess_params
RaisedAtOnce(ps, request) ==
    /\ override' = request
    /\ patients' = ps
    /\ input' = ps
    /\ preprocessed_params' = <<>>
    /\ note_idx' = 0
    /\ comp_idx' = 0
    /\ trace' = <<>>
    /\ dropped' = {}
    /\ pc' = "raised"
    /\ UNCHANGED <<frame, cacheVars, sharingVars, ctor, kind, config, components, pool,
                   prior_nonempty>>

\* POST /process_patient: pipeline.process(internal_patient,
\* config=config.model_dump())
ProcessPatient(p, request) ==
    /\ ctor = "ok" /\ kind = "single" /\ pc = "idle"
    /\ IF PreprocessParamsRaises(components, ModelDump(request))
       THEN RaisedAtOnce(<<p>>, request)
       ELSE SingleProcessBegin(p, request)

\* POST /process_batch_patients: pipeline.process(internal_patients,
\* config=config.model_dump())
ProcessBatchPatients(ps, request) ==
    /\ ctor = "ok" /\ kind = "batch" /\ pc = "idle"
    /\ IF PreprocessParamsRaises(components, ModelDump(request))
       THEN RaisedAtOnce(ps, request)
       ELSE BatchProcessBegin(ps, request)

\* a request that names every stage but ml_inference
EveryStage == [name \in SeqToSet(WithoutML) |-> <<>>]

RouteRequests ==
    { <<>>,
      [sentence_filter |-> [status |-> "disabled"]],
      EveryStage,
      [EveryStage EXCEPT !["sentence_filter"] = [status |-> "disabled"]],
      [name \in SeqToSet(WithoutML) \ {"joiner"} |-> <<>>] }

RouteConfigs ==
    { ConfigWith(ComponentNames, [ml_inference |-> "excluded"]),
      ConfigWith(ComponentNames, [ml_inference |-> "excluded", joiner |-> "excluded"]) }

RoutePatients == {Patient("p", <<Note(TextA)>>), Patient("q", <<Note(TextF)>>)}

NextRoute ==
    \/ \E k \in {"single", "batch"}, cfg \in RouteConfigs : Construct(k, cfg)
    \/ \E p \in RoutePatients, request \in RouteRequests : ProcessPatient(p, request)
    \/ SingleStep
    \/ SingleReturn
    \/ \E p \in RoutePatients, request \in RouteRequests : ProcessBatchPatients(<<p>>, request)
    \/ PoolWorker(1)
    \/ PoolJoin
    \/ BatchSegment
    \/ BatchInfer
    \/ Release

SpecRoute == Init /\ [][NextRoute]_vars

\* ------------------------------------------------------------------------
\* C39
\* ------------------------------------------------------------------------

\* the stages of the pipeline that the request of the call left out
LeftOut == {name \in DOMAIN components : name \notin DOMAIN override}

\* the stages that have a component
Constructed == {name \in DOMAIN components : components[name].component # None}

\* C39: a stage that the override map of a route call maps to null is
\* handled as a stage without overrides: the call does not raise, and the
\* stage runs or not by its construction status, with no parameters
\* overridden.
C39_NullOverrideIsNoOverride ==
    (InCall /\ LeftOut # {}) =>
        /\ pc # "raised"
        /\ \A name \in LeftOut \cap Constructed :
               preprocessed_params[name] =
                   [should_process |-> Value(components[name].status) = "enabled",
                    params |-> <<>>]

\* a route call whose request left out a stage that has a component
C39_Witness ==
    /\ InCall
    /\ LeftOut \cap Constructed # {}
    /\ input # <<>>

\* what preprocess_params does keep: a call whose request left out only
\* stages without a component does not raise, and every call that raised
\* left out a stage that has one
C39_ExcludedStagesMayBeNull ==
    InCall => (pc = "raised" <=> LeftOut \cap Constructed # {})

\* a call that left out the excluded stages only returned
C39_CompletedWitness ==
    /\ InCall /\ pc = "returned"
    /\ LeftOut # {} /\ LeftOut \cap Constructed = {}
















====
